---- MODULE Spec2Model ----
(***************************************************************************)
(* RsExtractor, OCR tool (src-tauri/src/tools/ocr).                        *)
(*                                                                         *)
(* Part 1: the recognition worker pool, perform_ocr / perform_ocr_core     *)
(* (perform.rs), its cancellation registry OCR_PROCESS_IDS and             *)
(* cancel_ocr_operation (cancel.rs).                                       *)
(*                                                                         *)
(* A call is modelled step by step: the async command body up to the       *)
(* blocking task, then one process per chunk of the rayon parallel         *)
(* iterator, then the flatten/sort and the return.  A step holds at most   *)
(* one access of the call to the registry mutex or the progress counter.   *)
(* Panics are not modelled.                                                *)
(*                                                                         *)
(* rayon's `collect::<Result<Vec<_>, _>>()` is modelled by what the        *)
(* library does: the first Err a chunk returns is saved and returned,      *)
(* later Errs are dropped, and a chunk whose turn comes after an Err was   *)
(* saved is not run at all.                                                *)
(***************************************************************************)
EXTENDS Integers, Sequences, FiniteSets, TLC

\* ------------------------------------------------------------------ bounds

MaxFrames == 4

MaxWorkers == 2

\* Frame rates a caller may pass (fps: f64); only integers are drawn.
FpsValues == {-1, 0, 1, 2}

\* Job ids known to the front end; cancel_ocr_operation may name any of them.
FileIds == {"a", "b"}

\* Job ids perform_ocr is called with.
JobIds == {"a"}

\* The copy_file calls in flight at one time.
CopyIds == {1, 2}

\* Source paths a copy or a cancel may name.
CopySources == {"a", "b"}

\* The largest source file, in reads of the copy buffer.
MaxReads == 2

\* ------------------------------------------------------------- error texts

ErrFps == "FPS must be greater than 0"

ErrCancelled == "OCR cancelled"

ErrDirectory == "Directory not found"

ErrNotDirectory == "Not a directory"

ErrModelsDir == "OCR models not found"

ErrReadDir == "Failed to read frames directory"

ErrThreadPool == "Failed to create thread pool"

\* create_ocr_engine's failures: a missing model file, or OcrEngine::new.
EngineErrors == {"Detection model not found", "Failed to create OCR engine"}

NoError == "none"

\* ------------------------------------------------------------------- state

VARIABLES
    OCR_PROCESS_IDS,      \* registry: file_id -> pid (a function on the ids present)
    OCR_TRANSCODE_PATHS,  \* file_id -> partial transcode output path
    transcode_files,      \* partial transcode files that exist on disk
    terminated,           \* pids that were sent a termination signal
    entry,                \* "none" | "perform_ocr" | "perform_ocr_core"
    callPc,               \* position of the call
    file_id, fps, num_workers,   \* the call's arguments
    frames_dir,           \* what the frames_dir argument names on disk
    total_frames,         \* frames.len()
    chunks,               \* Seq of Seq of frame_index
    progress_counter,     \* AtomicU32
    emitted,              \* "ocr-progress" events, in emission order
    wpc,                  \* per chunk: position of the closure run on it
    pos,                  \* per chunk: frames of the chunk consumed so far
    worker_results,       \* per chunk: the closure's worker_results
    engines,              \* chunks whose closure constructed an engine
    saved_error,          \* rayon's saved first Err
    result,               \* what the call returned
    \* history, not program state
    frames_listed,        \* the call read its frames directory
    failed_frames,        \* frame indices whose load or recognition failed
    cancel_seen,          \* chunks whose closure observed cancellation
    engine_failed,        \* chunks whose closure failed to construct its engine
    cancel_removed,       \* cancel_ocr_operation removed this job's entry
    cancel_called,        \* cancel_ocr_operation was called for this job's file_id during the run
    after_cancel,         \* per chunk: frames counted since cancel_removed
    cancel_result,        \* what cancel_ocr_operation returned last, "none" before
    \* transcode_for_preview
    transcode,            \* the call: its position, file_id, ffmpeg pid, attempts made
    extract,              \* extract_ocr_frames: its position, file_id, ffmpeg pid
    \* copy_file
    ACTIVE_COPY_SOURCES,    \* static HashSet<String> (state.rs)
    CANCELLED_COPY_SOURCES, \* static HashSet<String> (state.rs)
    copies,               \* per copy_file call: position, source, sizes in buffers, result
    dest_files,           \* the destination files that exist
    cancel_requested,     \* history: calls whose source was marked cancelled while they ran
    survived,             \* history: calls of cancel_requested that passed a later check
    \* the sleep-inhibit service: ManagerState (sleep_inhibit.rs)
    next_token,           \* u64
    leases,               \* HashMap<u64, String>: token -> reason
    handle,               \* Option<PlatformInhibitHandle>: <<>> or <<reason it was made for>>
    sleep_reply,          \* the request handled last and what was sent on its reply channel
    tokens_out,           \* history: the tokens handed out, in order
    \* generate_subtitles_core
    gen_pc,               \* "idle" | "fold" | "cues" | "filtered" | "returned"
    gen_fps,              \* the fps argument
    gen_total,            \* frame_results.len()
    gen_min_confidence,   \* the min_confidence argument, in hundredths
    gen_cleanup,          \* the cleanup options
    gen_frames,           \* the frames the loop has consumed, in order
    segments,             \* Vec<SubtitleSegment>
    current,              \* Option<SubtitleSegment>: <<>> or <<seg>>
    progress_calls,       \* on_progress invocations, <<i, len>> each
    subtitles,            \* Vec<OcrSubtitleEntry>
    cues,                 \* `subtitles` as built from the segments, before retain
    filtered,             \* `subtitles` after retain, before the merge pass
    gen_result,           \* what generate_subtitles_core returned
    \* history, not program state
    strict_thresholds,    \* the `similarity_threshold` values given to texts_are_similar
    merge_log,            \* the merge scan: per cue the last kept cue, the cue, the outcome
    \* a pure function applied to drawn arguments
    fn_name,              \* the function, "none" when no function is under study
    fn_args,              \* its arguments
    fn_out                \* <<>> before the call, <<value>> after it

vars == <<OCR_PROCESS_IDS, OCR_TRANSCODE_PATHS, transcode_files, terminated,
          entry, callPc, file_id, fps, num_workers, frames_dir, total_frames, chunks,
          progress_counter, emitted, wpc, pos, worker_results, engines,
          saved_error, result, frames_listed, failed_frames, cancel_seen,
          engine_failed, cancel_removed, cancel_called, after_cancel, cancel_result, transcode, extract,
          ACTIVE_COPY_SOURCES, CANCELLED_COPY_SOURCES, copies, dest_files,
          cancel_requested, survived,
          next_token, leases, handle, sleep_reply, tokens_out,
          gen_pc, gen_fps, gen_total, gen_min_confidence, gen_cleanup, gen_frames,
          segments, current, progress_calls, subtitles, cues, filtered, gen_result,
          strict_thresholds, merge_log, fn_name, fn_args, fn_out>>

ocrVars == <<OCR_PROCESS_IDS, OCR_TRANSCODE_PATHS, transcode_files, terminated,
             entry, callPc, file_id, fps, num_workers, frames_dir, total_frames, chunks,
             progress_counter, emitted, wpc, pos, worker_results, engines,
             saved_error, result, frames_listed, failed_frames, cancel_seen,
             engine_failed, cancel_removed, cancel_called, after_cancel, cancel_result>>

genVars == <<gen_pc, gen_fps, gen_total, gen_min_confidence, gen_cleanup, gen_frames,
             segments, current, progress_calls, subtitles, cues, filtered, gen_result,
             strict_thresholds, merge_log>>

pureVars == <<fn_name, fn_args, fn_out>>

previewVars == <<transcode, extract>>

copyVars == <<ACTIVE_COPY_SOURCES, CANCELLED_COPY_SOURCES, copies, dest_files,
              cancel_requested, survived>>

sleepVars == <<next_token, leases, handle, sleep_reply, tokens_out>>

registryVars == <<OCR_PROCESS_IDS, OCR_TRANSCODE_PATHS, transcode_files, terminated>>

argVars == <<entry, file_id, fps, num_workers, frames_dir>>

poolVars == <<wpc, pos, worker_results, engines, saved_error>>

histVars == <<frames_listed, failed_frames, cancel_seen, engine_failed, cancel_removed, cancel_called, after_cancel>>

\* ----------------------------------------------------------------- helpers

EmptyMap == [x \in {} |-> 0]

\* HashMap::insert
MapInsert(m, k, v) == [x \in (DOMAIN m) \cup {k} |-> IF x = k THEN v ELSE m[x]]

\* HashMap::remove
MapRemove(m, k) == [x \in (DOMAIN m) \ {k} |-> m[x]]

Max(a, b) == IF a >= b THEN a ELSE b

\* usize::div_ceil, and (len + n - 1) / n
DivCeil(a, b) == (a + b - 1) \div b

\* f64::round of n / d for n >= 0, d > 0 (half away from zero)
RoundDiv(n, d) == (2 * n + d) \div (2 * d)

RECURSIVE SumLen(_)
SumLen(ss) == IF ss = <<>> THEN 0 ELSE Len(Head(ss)) + SumLen(Tail(ss))

RECURSIVE Flatten(_)
\* into_iter().flatten().collect()
Flatten(ss) == IF ss = <<>> THEN <<>> ELSE Head(ss) \o Flatten(Tail(ss))

RECURSIVE InsertSorted(_, _)
InsertSorted(r, s) ==
    IF s = <<>> THEN <<r>>
    ELSE IF r.frame_index < Head(s).frame_index THEN <<r>> \o s
    ELSE <<Head(s)>> \o InsertSorted(r, Tail(s))

RECURSIVE InsertionSort(_)
InsertionSort(s) ==
    IF s = <<>> THEN <<>>
    ELSE InsertSorted(s[Len(s)], InsertionSort(SubSeq(s, 1, Len(s) - 1)))

\* mutant: the sort key reversed, sort_by_key(|r| Reverse(r.frame_index))
SortByFrameIndexDescending(s) ==
    LET sorted == InsertionSort(s)
    IN  [i \in 1..Len(sorted) |-> sorted[Len(sorted) + 1 - i]]

\* results.sort_by_key(|r| r.frame_index)
SortByFrameIndex(s) == InsertionSort(s)

\* std::cmp::max(1, num_workers)
WorkerCount(n) == Max(1, n)

\* mutant: floor instead of ceiling division
ChunkSizeFloor(total, workers) == Max(1, total \div workers)

ChunkSize(total, workers) == DivCeil(total, workers)

\* mutant: chunks_exact, which leaves the remainder out
ChunksExact(total, size) ==
    [c \in 1..(total \div size) |-> [j \in 1..size |-> (c - 1) * size + (j - 1)]]

\* mutant: the frames dealt out to the chunks in turn
ChunksDealt(total, size) ==
    LET k == DivCeil(total, size)
    IN  [c \in 1..k |-> [j \in 1..((total - c) \div k + 1) |-> (c - 1) + (j - 1) * k]]

\* frame_data.chunks(chunk_size) over frame_data = (0, p0), (1, p1), ...
Chunks(total, size) ==
    [c \in 1..DivCeil(total, size) |->
        [j \in 1..(IF c * size <= total THEN size ELSE total - (c - 1) * size) |->
            (c - 1) * size + (j - 1)]]

\* ((frame_index as f64) * frame_duration_ms).round() as u64
TimeMs(frame_index, rate) == RoundDiv(frame_index * 1000, rate)

FrameResult(frame_index, rate) ==
    [frame_index |-> frame_index, time_ms |-> TimeMs(frame_index, rate)]

ProgressEvent(kind, done, total) ==
    [kind |-> kind, current |-> done, total |-> total]

\* !guard.contains_key(&file_id_clone)
IsCancelled == file_id \notin DOMAIN OCR_PROCESS_IDS

Workers == DOMAIN wpc

Finished(w) == wpc[w] \in {"done", "failed", "skipped"}

\* ---------------------------------------------------------------- initial

\* impl Default for OcrSubtitleCleanupOptions; threshold in hundredths
DefaultCleanup ==
    [merge_similar |-> TRUE, similarity_threshold |-> 92, max_gap_ms |-> 250,
     min_cue_duration_ms |-> 500, filter_url_like |-> TRUE]

\* no command has been called
InitCalls ==
    /\ OCR_PROCESS_IDS = EmptyMap
    /\ OCR_TRANSCODE_PATHS = EmptyMap
    /\ transcode_files = {}
    /\ terminated = {}
    /\ entry = "none"
    /\ callPc = "idle"
    /\ file_id = "a"
    /\ fps = 1
    /\ num_workers = 1
    /\ frames_dir = "directory"
    /\ total_frames = 0
    /\ chunks = <<>>
    /\ progress_counter = 0
    /\ emitted = <<>>
    /\ wpc = <<>>
    /\ pos = <<>>
    /\ worker_results = <<>>
    /\ engines = {}
    /\ saved_error = NoError
    /\ result = [ok |-> FALSE, err |-> NoError, results |-> <<>>]
    /\ frames_listed = FALSE
    /\ failed_frames = {}
    /\ cancel_seen = {}
    /\ engine_failed = {}
    /\ cancel_removed = FALSE
    /\ cancel_called = FALSE
    /\ after_cancel = <<>>
    /\ cancel_result = "none"
    /\ transcode = [pc |-> "idle", file_id |-> "a", pid |-> 0, attempts |-> 0]
    /\ extract = [pc |-> "idle", file_id |-> "a", pid |-> 0]
    /\ ACTIVE_COPY_SOURCES = {}
    /\ CANCELLED_COPY_SOURCES = {}
    /\ copies = [c \in CopyIds |-> [pc |-> "idle", source |-> "a", total |-> 0,
                                     copied |-> 0, result |-> "none"]]
    /\ dest_files = {}
    /\ cancel_requested = {}
    /\ next_token = 1
    /\ leases = EmptyMap
    /\ handle = <<>>
    /\ sleep_reply = [request |-> "none", token |-> 0, reply |-> "none", err |-> NoError]
    /\ tokens_out = <<>>
    /\ survived = {}
    /\ gen_pc = "idle"
    /\ gen_fps = 1
    /\ gen_total = 0
    /\ gen_min_confidence = 0
    /\ gen_cleanup = DefaultCleanup
    /\ gen_frames = <<>>
    /\ segments = <<>>
    /\ current = <<>>
    /\ progress_calls = <<>>
    /\ subtitles = <<>>
    /\ cues = <<>>
    /\ filtered = <<>>
    /\ gen_result = [ok |-> FALSE, err |-> NoError, subtitles |-> <<>>]
    /\ strict_thresholds = {}
    /\ merge_log = <<>>

Init ==
    /\ InitCalls
    /\ fn_name = "none"
    /\ fn_args = <<>>
    /\ fn_out = <<>>

\* return Err(e) / return Ok(r)
ReturnErr(e) ==
    /\ callPc' = "returned"
    /\ result' = [ok |-> FALSE, err |-> e, results |-> <<>>]

ReturnOk(r) ==
    /\ callPc' = "returned"
    /\ result' = [ok |-> TRUE, err |-> NoError, results |-> r]

\* ------------------------------------------------- perform_ocr: the command

\* mutant: the check of perform_ocr written `fps < 0.0`
FpsRejectedNegativeOnly(rate) == rate < 0

\* if fps <= 0.0
FpsRejected(rate) == rate <= 0

\* the cleanup closure: guard.remove(&file_id_cleanup)
Cleanup == OCR_PROCESS_IDS' = MapRemove(OCR_PROCESS_IDS, file_id)

\* chunk_size and chunks of a call with `n` frames and num_workers `nw`
CallChunks(n, nw) == Chunks(n, ChunkSize(n, WorkerCount(nw)))

\* ThreadPoolBuilder::new().num_threads(chunks.len()).build(), then the
\* parallel iterator over the chunks: one closure per chunk, none started yet
StartPool(n, nw, pool_ok) ==
    /\ total_frames' = n
    /\ frames_listed' = TRUE
    /\ chunks' = CallChunks(n, nw)
    /\ IF pool_ok
       THEN /\ callPc' = "running"
            /\ wpc' = [c \in 1..Len(chunks') |-> "idle"]
            /\ pos' = [c \in 1..Len(chunks') |-> 0]
            /\ worker_results' = [c \in 1..Len(chunks') |-> <<>>]
            /\ after_cancel' = [c \in 1..Len(chunks') |-> 0]
            /\ UNCHANGED result
       ELSE /\ ReturnErr(ErrThreadPool)
            /\ UNCHANGED <<wpc, pos, worker_results, after_cancel>>

\* mutant: zero frames rejected as an error
ZeroFramesReject == Cleanup /\ ReturnErr("No frames found")

\* perform_ocr: if total_frames == 0 { cleanup(); return Ok(Vec::new()) }
ZeroFramesReturn == Cleanup /\ ReturnOk(<<>>)

\* what a path may name
PathStates == {"directory", "file", "missing"}

\* validate_directory_path: the error it returns, NoError for Ok(())
ValidateDirectoryPath(path) ==
    IF path = "missing" THEN ErrDirectory
    ELSE IF path # "directory" THEN ErrNotDirectory
    ELSE NoError

\* perform_ocr up to and including the registration of the job
PerformOcrCall(fid, rate, nw, dir) ==
    /\ callPc = "idle"
    /\ entry' = "perform_ocr"
    /\ file_id' = fid
    /\ fps' = rate
    /\ num_workers' = nw
    /\ frames_dir' = dir
    /\ IF ValidateDirectoryPath(dir) # NoError
       THEN ReturnErr(ValidateDirectoryPath(dir)) /\ UNCHANGED OCR_PROCESS_IDS
       ELSE IF FpsRejected(rate)
       THEN ReturnErr(ErrFps) /\ UNCHANGED OCR_PROCESS_IDS
       ELSE /\ OCR_PROCESS_IDS' = MapInsert(OCR_PROCESS_IDS, fid, 0)
            /\ callPc' = "registered"
            /\ UNCHANGED result
    /\ UNCHANGED <<OCR_TRANSCODE_PATHS, transcode_files, terminated, total_frames,
                   chunks, progress_counter, emitted, poolVars, histVars>>
    /\ UNCHANGED <<cancel_result, genVars, pureVars, previewVars, copyVars, sleepVars>>

\* perform_ocr from get_ocr_models_dir to the start of the blocking task
PerformOcrSetup(models_ok, read_ok, n, pool_ok) ==
    /\ callPc = "registered"
    /\ IF ~models_ok
       THEN /\ ReturnErr(ErrModelsDir)
            /\ UNCHANGED <<OCR_PROCESS_IDS, total_frames, chunks, emitted, wpc, pos,
                           worker_results, after_cancel, frames_listed>>
       ELSE IF ~read_ok
       THEN /\ ReturnErr(ErrReadDir)
            /\ UNCHANGED <<OCR_PROCESS_IDS, total_frames, chunks, emitted, wpc, pos,
                           worker_results, after_cancel, frames_listed>>
       ELSE IF n = 0
       THEN /\ ZeroFramesReturn
            /\ frames_listed' = TRUE
            /\ UNCHANGED <<total_frames, chunks, emitted, wpc, pos, worker_results,
                           after_cancel>>
       ELSE /\ emitted' = Append(emitted, ProgressEvent("start", 0, n))
            /\ StartPool(n, num_workers, pool_ok)
            /\ UNCHANGED OCR_PROCESS_IDS
    /\ UNCHANGED <<OCR_TRANSCODE_PATHS, transcode_files, terminated, argVars,
                   progress_counter, engines, saved_error, failed_frames,
                   cancel_seen, engine_failed, cancel_removed, cancel_called>>
    /\ UNCHANGED <<cancel_result, genVars, pureVars, previewVars, copyVars, sleepVars>>

\* perform_ocr_core: if frames.is_empty() { return Ok(Vec::new()) }
CoreZeroFramesReturn == ReturnOk(<<>>)

\* perform_ocr_core up to the start of the parallel iterator
PerformOcrCoreCall(rate, nw, dir, read_ok, n, pool_ok) ==
    /\ callPc = "idle"
    /\ entry' = "perform_ocr_core"
    /\ fps' = rate
    /\ num_workers' = nw
    /\ frames_dir' = dir
    /\ IF ValidateDirectoryPath(dir) # NoError
       THEN /\ ReturnErr(ValidateDirectoryPath(dir))
            /\ UNCHANGED <<total_frames, chunks, wpc, pos, worker_results, after_cancel,
                           frames_listed>>
       ELSE IF FpsRejected(rate)
       THEN /\ ReturnErr(ErrFps)
            /\ UNCHANGED <<total_frames, chunks, wpc, pos, worker_results, after_cancel,
                           frames_listed>>
       ELSE IF ~read_ok
       THEN /\ ReturnErr(ErrReadDir)
            /\ UNCHANGED <<total_frames, chunks, wpc, pos, worker_results, after_cancel,
                           frames_listed>>
       ELSE IF n = 0
       THEN /\ CoreZeroFramesReturn
            /\ frames_listed' = TRUE
            /\ UNCHANGED <<total_frames, chunks, wpc, pos, worker_results, after_cancel>>
       ELSE StartPool(n, nw, pool_ok)
    /\ UNCHANGED <<registryVars, file_id, progress_counter, emitted, engines,
                   saved_error, failed_frames, cancel_seen, engine_failed,
                   cancel_removed, cancel_called>>
    /\ UNCHANGED <<cancel_result, genVars, pureVars, previewVars, copyVars, sleepVars>>

\* --------------------------------------------- the closure run on one chunk

\* mutant: the closure's Err is dropped, as by filter_map(Result::ok)
SaveErrorDropped(e) == UNCHANGED saved_error

\* The closure returned Err(e): rayon keeps the first Err only.
SaveError(e) == saved_error' = IF saved_error = NoError THEN e ELSE saved_error

\* mutant: the check always takes its unwrap_or(false) default
ObservesCancelNever == FALSE

\* The closure's two cancellation checks; perform_ocr_core has none.
ObservesCancel == entry = "perform_ocr" /\ IsCancelled

\* mutant: `break` in place of `return Err(..)`
OnCancelledBreak(w) ==
    /\ wpc' = [wpc EXCEPT ![w] = "done"]
    /\ UNCHANGED saved_error
    /\ cancel_seen' = cancel_seen \cup {w}

\* if is_cancelled { return Err("OCR cancelled".to_string()) }
OnCancelled(w) ==
    /\ wpc' = [wpc EXCEPT ![w] = "failed"]
    /\ SaveError(ErrCancelled)
    /\ cancel_seen' = cancel_seen \cup {w}

\* rayon hands chunk w to a thread: no Err was saved so far
WorkerBegin(w) ==
    /\ callPc = "running"
    /\ wpc[w] = "idle"
    /\ saved_error = NoError
    /\ wpc' = [wpc EXCEPT ![w] = IF entry = "perform_ocr" THEN "entry" ELSE "engine"]
    /\ UNCHANGED <<registryVars, argVars, callPc, total_frames, chunks, progress_counter,
                   emitted, pos, worker_results, engines, saved_error, result, histVars>>
    /\ UNCHANGED <<cancel_result, genVars, pureVars, previewVars, copyVars, sleepVars>>

\* rayon drops chunk w: an Err was saved before its turn came
WorkerSkip(w) ==
    /\ callPc = "running"
    /\ wpc[w] = "idle"
    /\ saved_error # NoError
    /\ wpc' = [wpc EXCEPT ![w] = "skipped"]
    /\ UNCHANGED <<registryVars, argVars, callPc, total_frames, chunks, progress_counter,
                   emitted, pos, worker_results, engines, saved_error, result, histVars>>
    /\ UNCHANGED <<cancel_result, genVars, pureVars, previewVars, copyVars, sleepVars>>

\* mutant: the closure without its check before the engine
WorkerEntryCheckLeftOut(w) ==
    /\ callPc = "running"
    /\ wpc[w] = "entry"
    /\ wpc' = [wpc EXCEPT ![w] = "engine"]
    /\ UNCHANGED <<registryVars, argVars, callPc, total_frames, chunks, progress_counter,
                   emitted, pos, worker_results, engines, saved_error, result, histVars>>
    /\ UNCHANGED <<cancel_result, genVars, pureVars, previewVars, copyVars, sleepVars>>

\* "Check for cancellation before starting this worker"
WorkerEntryCheck(w) ==
    /\ callPc = "running"
    /\ wpc[w] = "entry"
    /\ IF ObservesCancel
       THEN OnCancelled(w)
       ELSE /\ wpc' = [wpc EXCEPT ![w] = "engine"]
            /\ UNCHANGED <<saved_error, cancel_seen>>
    /\ UNCHANGED <<registryVars, argVars, callPc, total_frames, chunks, progress_counter,
                   emitted, pos, worker_results, engines, result, frames_listed, failed_frames,
                   engine_failed, cancel_removed, cancel_called, after_cancel>>
    /\ UNCHANGED <<cancel_result, genVars, pureVars, previewVars, copyVars, sleepVars>>

\* mutant: one engine for the call, constructed by the first worker to need it
\* and used by the others
WorkerCreateEngineShared(w, outcome) ==
    /\ callPc = "running"
    /\ wpc[w] = "engine"
    /\ IF engines # {}
       THEN /\ wpc' = [wpc EXCEPT ![w] = "loop"]
            /\ UNCHANGED <<engines, saved_error, engine_failed>>
       ELSE IF outcome = "ok"
       THEN /\ wpc' = [wpc EXCEPT ![w] = "loop"]
            /\ engines' = engines \cup {w}
            /\ UNCHANGED <<saved_error, engine_failed>>
       ELSE /\ wpc' = [wpc EXCEPT ![w] = "failed"]
            /\ SaveError(outcome)
            /\ engine_failed' = engine_failed \cup {w}
            /\ UNCHANGED engines
    /\ UNCHANGED <<registryVars, argVars, callPc, total_frames, chunks, progress_counter,
                   emitted, pos, worker_results, result, frames_listed, failed_frames, cancel_seen,
                   cancel_removed, cancel_called, after_cancel>>
    /\ UNCHANGED <<cancel_result, genVars, pureVars, previewVars, copyVars, sleepVars>>

\* let engine = create_ocr_engine(..)?
WorkerCreateEngine(w, outcome) ==
    /\ callPc = "running"
    /\ wpc[w] = "engine"
    /\ IF outcome = "ok"
       THEN /\ wpc' = [wpc EXCEPT ![w] = "loop"]
            /\ engines' = engines \cup {w}
            /\ UNCHANGED <<saved_error, engine_failed>>
       ELSE /\ wpc' = [wpc EXCEPT ![w] = "failed"]
            /\ SaveError(outcome)
            /\ engine_failed' = engine_failed \cup {w}
            /\ UNCHANGED engines
    /\ UNCHANGED <<registryVars, argVars, callPc, total_frames, chunks, progress_counter,
                   emitted, pos, worker_results, result, frames_listed, failed_frames, cancel_seen,
                   cancel_removed, cancel_called, after_cancel>>
    /\ UNCHANGED <<cancel_result, genVars, pureVars, previewVars, copyVars, sleepVars>>

\* the head of `for (frame_index, frame_path) in chunk_paths`: the end of the
\* chunk (Ok(worker_results)), or the per-frame cancellation check
WorkerNextFrame(w) ==
    /\ callPc = "running"
    /\ wpc[w] = "loop"
    /\ IF pos[w] = Len(chunks[w])
       THEN /\ wpc' = [wpc EXCEPT ![w] = "done"]
            /\ UNCHANGED <<saved_error, cancel_seen>>
       ELSE IF ObservesCancel
       THEN OnCancelled(w)
       ELSE /\ wpc' = [wpc EXCEPT ![w] = "frame"]
            /\ UNCHANGED <<saved_error, cancel_seen>>
    /\ UNCHANGED <<registryVars, argVars, callPc, total_frames, chunks, progress_counter,
                   emitted, pos, worker_results, engines, result, frames_listed, failed_frames,
                   engine_failed, cancel_removed, cancel_called, after_cancel>>
    /\ UNCHANGED <<cancel_result, genVars, pureVars, previewVars, copyVars, sleepVars>>

\* mutant: a result is pushed for a failed frame too
RecordFramePushAlways(w, frame_index, outcome) ==
    /\ worker_results' = [worker_results EXCEPT
                             ![w] = Append(@, FrameResult(frame_index, fps))]
    /\ failed_frames' = IF outcome = "ok" THEN failed_frames
                        ELSE failed_frames \cup {frame_index}

\* image::open and engine.recognize: Ok pushes one OcrFrameResult, Err pushes none
RecordFrame(w, frame_index, outcome) ==
    IF outcome = "ok"
    THEN /\ worker_results' = [worker_results EXCEPT
                                  ![w] = Append(@, FrameResult(frame_index, fps))]
         /\ UNCHANGED failed_frames
    ELSE /\ failed_frames' = failed_frames \cup {frame_index}
         /\ UNCHANGED worker_results

\* mutant: fetch_add's return value emitted as it is, without the + 1
AdvanceProgressStale ==
    IF entry = "perform_ocr"
    THEN /\ progress_counter' = progress_counter + 1
         /\ emitted' = Append(emitted,
                ProgressEvent("frame", progress_counter, total_frames))
    ELSE UNCHANGED <<progress_counter, emitted>>

\* progress_counter.fetch_add(1, Relaxed) + 1, emitted as `current`;
\* perform_ocr_core has no counter
AdvanceProgress ==
    IF entry = "perform_ocr"
    THEN /\ progress_counter' = progress_counter + 1
         /\ emitted' = Append(emitted,
                ProgressEvent("frame", progress_counter + 1, total_frames))
    ELSE UNCHANGED <<progress_counter, emitted>>

\* the body of the loop for one frame, all three of its exits
WorkerFrame(w, outcome) ==
    /\ callPc = "running"
    /\ wpc[w] = "frame"
    /\ RecordFrame(w, chunks[w][pos[w] + 1], outcome)
    /\ AdvanceProgress
    /\ pos' = [pos EXCEPT ![w] = @ + 1]
    /\ wpc' = [wpc EXCEPT ![w] = "loop"]
    /\ after_cancel' = [after_cancel EXCEPT ![w] = IF cancel_removed THEN @ + 1 ELSE @]
    /\ UNCHANGED <<registryVars, argVars, callPc, total_frames, chunks, engines,
                   saved_error, result, frames_listed, cancel_seen, engine_failed,
                   cancel_removed, cancel_called>>
    /\ UNCHANGED <<cancel_result, genVars, pureVars, previewVars, copyVars, sleepVars>>

\* ------------------------------------------------------ collect and return

\* all_results.map(flatten, sort_by_key): rayon collects the chunks' vectors
\* in chunk order, whatever the order the closures finished in
CollectResults == SortByFrameIndex(Flatten(worker_results))

\* the end of the parallel iterator, `.await ... ??`, and the rest of perform_ocr
\* (perform_ocr_core: `all_results?`, flatten, sort, Ok)
PerformOcrJoin ==
    /\ callPc = "running"
    /\ \A w \in Workers : Finished(w)
    /\ IF saved_error # NoError
       THEN /\ ReturnErr(saved_error)
            /\ UNCHANGED <<OCR_PROCESS_IDS, emitted>>
       ELSE IF entry = "perform_ocr"
       THEN /\ emitted' = Append(emitted,
                              ProgressEvent("complete", total_frames, total_frames))
            /\ Cleanup
            /\ ReturnOk(CollectResults)
       ELSE /\ ReturnOk(CollectResults)
            /\ UNCHANGED <<OCR_PROCESS_IDS, emitted>>
    /\ UNCHANGED <<OCR_TRANSCODE_PATHS, transcode_files, terminated, argVars,
                   total_frames, chunks, progress_counter, poolVars, histVars>>
    /\ UNCHANGED <<cancel_result, genVars, pureVars, previewVars, copyVars, sleepVars>>

\* ------------------------------------------------------ cancel_ocr_operation

\* mutant: terminate_process without its test of pid 0
TerminateProcessAnyPid(pid) == terminated \cup {pid}

\* terminate_process(pid): pid 0 is no process
TerminateProcess(pid) == IF pid = 0 THEN terminated ELSE terminated \cup {pid}

CancelOcrOperation(fid) ==
    /\ OCR_PROCESS_IDS' = MapRemove(OCR_PROCESS_IDS, fid)
    /\ OCR_TRANSCODE_PATHS' = MapRemove(OCR_TRANSCODE_PATHS, fid)
    /\ terminated' = IF fid \in DOMAIN OCR_PROCESS_IDS
                     THEN TerminateProcess(OCR_PROCESS_IDS[fid])
                     ELSE terminated
    /\ transcode_files' = IF fid \in DOMAIN OCR_TRANSCODE_PATHS
                          THEN transcode_files \ {OCR_TRANSCODE_PATHS[fid]}
                          ELSE transcode_files
    /\ cancel_removed' = (cancel_removed \/
                            (/\ entry = "perform_ocr"
                             /\ callPc \in {"registered", "running"}
                             /\ fid = file_id
                             /\ fid \in DOMAIN OCR_PROCESS_IDS))
    /\ cancel_called' = (cancel_called \/
                           (/\ entry = "perform_ocr"
                            /\ callPc \in {"registered", "running"}
                            /\ fid = file_id))
    /\ cancel_result' = "Ok"
    /\ UNCHANGED <<argVars, callPc, total_frames, chunks, progress_counter, emitted,
                   poolVars, result, frames_listed, failed_frames, cancel_seen, engine_failed,
                   after_cancel>>
    /\ UNCHANGED <<genVars, pureVars, previewVars, copyVars, sleepVars>>

\* ---------------------------------------------------- transcode_for_preview

\* the state of a call of perform_ocr / perform_ocr_core
callVars == <<argVars, callPc, total_frames, chunks, progress_counter, emitted, poolVars,
              result, histVars>>

\* pids of the ffmpeg processes spawned
FfmpegPids == {7}

\* temp_dir.join(format!("{}_{}.mp4", stem, &path_hash[..8])): one path per input
PreviewPath(fid) == <<"mediaflow_preview", fid>>

\* clear_ocr_process_tracking
ClearOcrProcessTracking(pids, fid) == MapRemove(pids, fid)

\* clear_ocr_transcode_tracking
ClearOcrTranscodeTracking(paths, fid) == MapRemove(paths, fid)

\* is_ocr_transcode_cancelled
IsOcrTranscodeCancelled(fid) == fid \notin DOMAIN OCR_TRANSCODE_PATHS

\* the number of attempts: the selected encoder, then libx264
MaxAttempts == 2

\* transcode_for_preview up to the registration of the output path; `ready`
\* is false when the media path or the ffmpeg binary is rejected
TranscodeForPreviewCall(fid, ready) ==
    /\ transcode.pc = "idle"
    /\ IF ~ready \/ PreviewPath(fid) \in transcode_files
       THEN /\ transcode' = [transcode EXCEPT !.pc = "returned", !.file_id = fid]
            /\ UNCHANGED OCR_TRANSCODE_PATHS
       ELSE /\ OCR_TRANSCODE_PATHS' = MapInsert(OCR_TRANSCODE_PATHS, fid, PreviewPath(fid))
            /\ transcode' = [transcode EXCEPT !.pc = "registered", !.file_id = fid]
    /\ UNCHANGED <<OCR_PROCESS_IDS, transcode_files, terminated, callVars, cancel_result, extract>>
    /\ UNCHANGED <<genVars, pureVars, copyVars, sleepVars>>

\* what transcode_for_preview does with the Err of an attempt: the retry with
\* libx264, or the cleanup and the return; `pids` and `files` are the process
\* registry and the files as the attempt left them
AttemptFailed(pids, files, fallback) ==
    LET fid == transcode.file_id
    IN  IF fallback /\ transcode.attempts < MaxAttempts /\ ~IsOcrTranscodeCancelled(fid)
        THEN /\ transcode_files' = files \ {PreviewPath(fid)}
             /\ OCR_PROCESS_IDS' = pids
             /\ transcode' = [transcode EXCEPT !.pc = "registered"]
             /\ UNCHANGED OCR_TRANSCODE_PATHS
        ELSE /\ OCR_PROCESS_IDS' = ClearOcrProcessTracking(pids, fid)
             /\ OCR_TRANSCODE_PATHS' = ClearOcrTranscodeTracking(OCR_TRANSCODE_PATHS, fid)
             /\ transcode_files' = files \ {PreviewPath(fid)}
             /\ transcode' = [transcode EXCEPT !.pc = "returned"]

\* run_preview_transcode_attempt up to the wait for ffmpeg: the spawn, the
\* registration of the pid; ffmpeg creates the output file
TranscodeSpawn(pid, spawn_ok, fallback) ==
    /\ transcode.pc = "registered"
    /\ IF spawn_ok
       THEN /\ OCR_PROCESS_IDS' = MapInsert(OCR_PROCESS_IDS, transcode.file_id, pid)
            /\ transcode_files' = transcode_files \cup {PreviewPath(transcode.file_id)}
            /\ transcode' = [transcode EXCEPT !.pc = "running", !.pid = pid,
                                               !.attempts = @ + 1]
            /\ UNCHANGED OCR_TRANSCODE_PATHS
       ELSE AttemptFailed(OCR_PROCESS_IDS, transcode_files, fallback)
    /\ UNCHANGED <<terminated, callVars, cancel_result, extract>>
    /\ UNCHANGED <<genVars, pureVars, copyVars, sleepVars>>

\* ffmpeg exits and run_preview_transcode_attempt returns, then
\* transcode_for_preview goes on; a process that was sent the termination
\* signal does not exit with success
TranscodeAttemptEnds(success, fallback) ==
    /\ transcode.pc = "running"
    /\ success => transcode.pid \notin terminated
    /\ LET fid == transcode.file_id
           pids == ClearOcrProcessTracking(OCR_PROCESS_IDS, fid)
       IN  IF success /\ PreviewPath(fid) \in transcode_files
           THEN /\ OCR_PROCESS_IDS' = pids
                /\ OCR_TRANSCODE_PATHS' = ClearOcrTranscodeTracking(OCR_TRANSCODE_PATHS, fid)
                /\ transcode' = [transcode EXCEPT !.pc = "returned"]
                /\ UNCHANGED transcode_files
           ELSE AttemptFailed(pids,
                              IF success THEN transcode_files
                              ELSE transcode_files \ {PreviewPath(fid)},
                              fallback)
    /\ UNCHANGED <<terminated, callVars, cancel_result, extract>>
    /\ UNCHANGED <<genVars, pureVars, copyVars, sleepVars>>

\* ---------------------------------------------------------------- copy_file

ErrCopyCancelled == "Copy cancelled"

ErrCopyFailed == "Failed to copy file"

ErrCopyPaths == "Source file not found"

\* every call writes a destination of its own
DestPath(c) == <<"dest", c>>

\* is_copy_cancel_requested(source_path)
IsCopyCancelRequested(source) == source \in CANCELLED_COPY_SOURCES

\* copy_file_impl returns: the partial output is removed on an error of
\* copy_file_with_progress, and the drop of CopyOperationGuard runs clear_copy
CopyReturns(c, res) ==
    /\ copies' = [copies EXCEPT ![c].pc = "returned", ![c].result = res]
    /\ dest_files' = IF res = "Ok" THEN dest_files ELSE dest_files \ {DestPath(c)}
    /\ ACTIVE_COPY_SOURCES' = ACTIVE_COPY_SOURCES \ {copies[c].source}
    /\ CANCELLED_COPY_SOURCES' = CANCELLED_COPY_SOURCES \ {copies[c].source}

\* one `if is_copy_cancel_requested(source_path)?` of the copy loop
CopyCheck(c, next) ==
    IF IsCopyCancelRequested(copies[c].source)
    THEN /\ CopyReturns(c, ErrCopyCancelled)
         /\ UNCHANGED survived
    ELSE /\ copies' = [copies EXCEPT ![c].pc = next]
         /\ survived' = IF c \in cancel_requested THEN survived \cup {c} ELSE survived
         /\ UNCHANGED <<ACTIVE_COPY_SOURCES, CANCELLED_COPY_SOURCES, dest_files>>

\* copy_file_impl up to CopyOperationGuard::begin: validate_copy_paths and the
\* metadata read (`valid`), then register_copy
CopyFileCall(c, source, total, valid) ==
    /\ copies[c].pc = "idle"
    /\ IF valid
       THEN /\ ACTIVE_COPY_SOURCES' = ACTIVE_COPY_SOURCES \cup {source}
            /\ CANCELLED_COPY_SOURCES' = CANCELLED_COPY_SOURCES \ {source}
            /\ copies' = [copies EXCEPT ![c] = [pc |-> "registered", source |-> source,
                                                total |-> total, copied |-> 0,
                                                result |-> "none"]]
       ELSE /\ copies' = [copies EXCEPT ![c].pc = "returned", ![c].source = source,
                                        ![c].result = ErrCopyPaths]
            /\ UNCHANGED <<ACTIVE_COPY_SOURCES, CANCELLED_COPY_SOURCES>>
    /\ UNCHANGED <<dest_files, cancel_requested, survived>>
    /\ UNCHANGED <<ocrVars, genVars, pureVars, previewVars, sleepVars>>

\* copy_file_with_progress opens the source and creates the destination
CopyOpen(c, opened) ==
    /\ copies[c].pc = "registered"
    /\ IF opened
       THEN /\ copies' = [copies EXCEPT ![c].pc = "check_before_read"]
            /\ dest_files' = dest_files \cup {DestPath(c)}
            /\ UNCHANGED <<ACTIVE_COPY_SOURCES, CANCELLED_COPY_SOURCES>>
       ELSE CopyReturns(c, ErrCopyFailed)
    /\ UNCHANGED <<cancel_requested, survived>>
    /\ UNCHANGED <<ocrVars, genVars, pureVars, previewVars, sleepVars>>

\* the check at the head of the loop
CopyCheckBeforeRead(c) ==
    /\ copies[c].pc = "check_before_read"
    /\ CopyCheck(c, "read")
    /\ UNCHANGED cancel_requested
    /\ UNCHANGED <<ocrVars, genVars, pureVars, previewVars, sleepVars>>

\* reader.read and writer.write_all of n buffers' worth, or the end of the
\* source, the flush and Ok(()); `io_ok` is false when the read, the write or
\* the flush fails
CopyReadWrite(c, n, io_ok) ==
    /\ copies[c].pc = "read"
    /\ n \in 0..(copies[c].total - copies[c].copied)
    /\ n = 0 <=> copies[c].copied = copies[c].total
    /\ IF ~io_ok
       THEN CopyReturns(c, ErrCopyFailed)
       ELSE IF n = 0
            THEN CopyReturns(c, "Ok")
            ELSE /\ copies' = [copies EXCEPT ![c].pc = "check_after_write",
                                             ![c].copied = @ + n]
                 /\ UNCHANGED <<ACTIVE_COPY_SOURCES, CANCELLED_COPY_SOURCES, dest_files>>
    /\ UNCHANGED <<cancel_requested, survived>>
    /\ UNCHANGED <<ocrVars, genVars, pureVars, previewVars, sleepVars>>

\* the check after the write
CopyCheckAfterWrite(c) ==
    /\ copies[c].pc = "check_after_write"
    /\ CopyCheck(c, "check_before_read")
    /\ UNCHANGED cancel_requested
    /\ UNCHANGED <<ocrVars, genVars, pureVars, previewVars, sleepVars>>

\* the calls between register_copy and their return
Copying == {c \in CopyIds : copies[c].pc \notin {"idle", "returned"}}

\* cancel_copy_file(source_path): request_copy_cancel
CancelCopyFile(source) ==
    /\ IF source \in ACTIVE_COPY_SOURCES
       THEN /\ CANCELLED_COPY_SOURCES' = CANCELLED_COPY_SOURCES \cup {source}
            /\ cancel_requested' =
                  cancel_requested \cup {c \in Copying : copies[c].source = source}
       ELSE UNCHANGED <<CANCELLED_COPY_SOURCES, cancel_requested>>
    /\ UNCHANGED <<ACTIVE_COPY_SOURCES, copies, dest_files, survived>>
    /\ UNCHANGED <<ocrVars, genVars, pureVars, previewVars, sleepVars>>

\* ------------------------------------------------------------ specification

FrameOutcomes == {"ok", "load_failed", "ocr_failed"}

EngineOutcomes == {"ok"} \cup EngineErrors

\* the steps of a call in progress, and cancel_ocr_operation
OcrSteps ==
    \/ \E models_ok \in BOOLEAN, read_ok \in BOOLEAN, n \in 0..MaxFrames, pool_ok \in BOOLEAN :
          PerformOcrSetup(models_ok, read_ok, n, pool_ok)
    \/ \E w \in Workers : WorkerBegin(w)
    \/ \E w \in Workers : WorkerSkip(w)
    \/ \E w \in Workers : WorkerEntryCheck(w)
    \/ \E w \in Workers, outcome \in EngineOutcomes : WorkerCreateEngine(w, outcome)
    \/ \E w \in Workers : WorkerNextFrame(w)
    \/ \E w \in Workers, outcome \in FrameOutcomes : WorkerFrame(w, outcome)
    \/ PerformOcrJoin
    \/ \E fid \in FileIds : CancelOcrOperation(fid)

NextOcr ==
    \/ \E fid \in JobIds, rate \in FpsValues, nw \in 0..MaxWorkers, dir \in PathStates :
          PerformOcrCall(fid, rate, nw, dir)
    \/ \E rate \in FpsValues, nw \in 0..MaxWorkers, dir \in PathStates, read_ok \in BOOLEAN,
          n \in 0..MaxFrames, pool_ok \in BOOLEAN :
          PerformOcrCoreCall(rate, nw, dir, read_ok, n, pool_ok)
    \/ OcrSteps

SpecOcr == Init /\ [][NextOcr]_vars

\* cancel_ocr_operation against a transcode and a recognition job
NextCancel ==
    \/ \E fid \in FileIds, ready \in BOOLEAN : TranscodeForPreviewCall(fid, ready)
    \/ \E pid \in FfmpegPids, spawn_ok \in BOOLEAN, fallback \in BOOLEAN :
          TranscodeSpawn(pid, spawn_ok, fallback)
    \/ \E success \in BOOLEAN, fallback \in BOOLEAN : TranscodeAttemptEnds(success, fallback)
    \/ \E fid \in JobIds : PerformOcrCall(fid, 1, 1, "directory")
    \/ PerformOcrSetup(TRUE, TRUE, 0, TRUE)
    \/ \E fid \in FileIds : CancelOcrOperation(fid)

SpecCancel == Init /\ [][NextCancel]_vars

\* copy_file calls and cancel_copy_file, in any interleaving
NextCopy ==
    \/ \E c \in CopyIds, source \in CopySources, total \in 0..MaxReads, valid \in BOOLEAN :
          CopyFileCall(c, source, total, valid)
    \/ \E c \in CopyIds, opened \in BOOLEAN : CopyOpen(c, opened)
    \/ \E c \in CopyIds : CopyCheckBeforeRead(c)
    \/ \E c \in CopyIds, n \in 0..MaxReads, io_ok \in BOOLEAN : CopyReadWrite(c, n, io_ok)
    \/ \E c \in CopyIds : CopyCheckAfterWrite(c)
    \/ \E source \in CopySources : CancelCopyFile(source)

SpecCopy == Init /\ [][NextCopy]_vars

(***************************************************************************)
(* Part 2: generate_subtitles_core (subtitles.rs) and its text helpers.    *)
(*                                                                         *)
(* A text is a sequence of characters, a character a one-element token.    *)
(* A confidence (f64 in [0, 1]) and a similarity threshold are given in    *)
(* hundredths; the 1e-9 tolerances of the source then are exact            *)
(* comparisons.  Arithmetic on them is exact, not floating point.          *)
(***************************************************************************)

\* ------------------------------------------------------------- characters

AsciiLower == {"a", "b", "c", "d", "e", "f", "g", "h", "i", "j", "k", "l", "m",
               "n", "o", "p", "q", "r", "s", "t", "u", "v", "w", "x", "y", "z"}

AsciiUpper == {"A", "B", "H", "S"}

AsciiDigit == {"0", "1"}

\* '，' and '。' stand for the full-width marks of is_edge_punctuation
CjkPunctuation == {"FW_COMMA", "FW_STOP"}

\* a letter outside ASCII, three bytes long in UTF-8
CjkLetters == {"ZH_1", "ZH_2"}

WhitespaceChars == {" ", "\t"}

AsciiPunctuationChars == {"!", ".", ",", ":", "/", "-", "?"}

\* char::is_whitespace
IsWhitespace(c) == c \in WhitespaceChars

\* char::is_ascii_punctuation
IsAsciiPunctuation(c) == c \in AsciiPunctuationChars

\* char::is_ascii_alphabetic
IsAsciiAlphabetic(c) == c \in AsciiLower \cup AsciiUpper

\* char::is_ascii_alphanumeric
IsAsciiAlphanumeric(c) == IsAsciiAlphabetic(c) \/ c \in AsciiDigit

\* char::to_lowercase / to_ascii_lowercase on the letters drawn
ToLowerChar(c) ==
    CASE c = "A" -> "a"
      [] c = "B" -> "b"
      [] c = "H" -> "h"
      [] c = "S" -> "s"
      [] OTHER -> c

\* str::to_lowercase, str::to_ascii_lowercase
ToLowercase(text) == [i \in 1..Len(text) |-> ToLowerChar(text[i])]

\* the UTF-8 length of a character
CharBytes(c) == IF c \in CjkPunctuation \cup CjkLetters THEN 3 ELSE 1

RECURSIVE ByteLen(_)
\* str::len
ByteLen(text) == IF text = <<>> THEN 0 ELSE CharBytes(Head(text)) + ByteLen(Tail(text))

RECURSIVE TrimStartMatches(_, _)
TrimStartMatches(text, set) ==
    IF text # <<>> /\ Head(text) \in set THEN TrimStartMatches(Tail(text), set) ELSE text

RECURSIVE TrimEndMatches(_, _)
TrimEndMatches(text, set) ==
    IF text # <<>> /\ text[Len(text)] \in set
    THEN TrimEndMatches(SubSeq(text, 1, Len(text) - 1), set)
    ELSE text

\* str::trim_matches, the predicate given as the set of characters it accepts
TrimMatches(text, set) == TrimEndMatches(TrimStartMatches(text, set), set)

\* str::trim
Trim(text) == TrimMatches(text, WhitespaceChars)

RECURSIVE CollapseFrom(_, _, _)
\* the loop of collapse_whitespace: `out`, `last_was_space`, and the rest of the text
CollapseFrom(rest, out, last_was_space) ==
    IF rest = <<>> THEN out
    ELSE IF IsWhitespace(Head(rest))
    THEN CollapseFrom(Tail(rest),
                      IF ~last_was_space /\ out # <<>> THEN Append(out, " ") ELSE out,
                      TRUE)
    ELSE CollapseFrom(Tail(rest), Append(out, Head(rest)), FALSE)

\* collapse_whitespace
CollapseWhitespace(text) == Trim(CollapseFrom(text, <<>>, FALSE))

\* is_edge_punctuation
IsEdgePunctuation(c) ==
    IsWhitespace(c) \/ IsAsciiPunctuation(c) \/ c \in CjkPunctuation

EdgePunctuationChars == WhitespaceChars \cup AsciiPunctuationChars \cup CjkPunctuation

\* mutant: normalize_text_for_compare without trim_matches
NormalizeTextUntrimmed(text) == ToLowercase(CollapseWhitespace(text))

\* normalize_text_for_compare
NormalizeTextForCompare(text) ==
    ToLowercase(TrimMatches(CollapseWhitespace(text), EdgePunctuationChars))

\* ------------------------------------------------------------- similarity

Min(a, b) == IF a <= b THEN a ELSE b

\* Option::None of levenshtein_distance_bounded
NoDistance == -1

RECURSIVE LevCells(_, _, _, _, _)
\* the inner loop over i: `cur` so far (cur[1] is cur[0] of the source)
LevCells(short, long_ch, prev, cur, i) ==
    IF i > Len(short) THEN cur
    ELSE LET cost == IF short[i] # long_ch THEN 1 ELSE 0
             ins  == cur[i] + 1
             del  == prev[i + 1] + 1
             sub  == prev[i] + cost
         IN  LevCells(short, long_ch, prev, Append(cur, Min(Min(ins, del), sub)), i + 1)

RowMin(row) == CHOOSE m \in {row[k] : k \in 1..Len(row)} :
                  \A k \in 1..Len(row) : m <= row[k]

RECURSIVE LevRows(_, _, _, _, _)
\* the outer loop over j, with its early exit on row_min > max_dist
LevRows(short, long, prev, j, max_dist) ==
    IF j > Len(long)
    THEN IF prev[Len(short) + 1] <= max_dist THEN prev[Len(short) + 1] ELSE NoDistance
    ELSE LET cur == LevCells(short, long[j], prev, <<j>>, 1)
         IN  IF RowMin(cur) > max_dist THEN NoDistance
             ELSE LevRows(short, long, cur, j + 1, max_dist)

\* mutant: the length exit is taken at the bound
LevenshteinDistanceBoundedTightExit(a, b, max_dist) ==
    LET short == IF Len(a) <= Len(b) THEN a ELSE b
        long  == IF Len(a) <= Len(b) THEN b ELSE a
    IN  IF Len(long) - Len(short) >= max_dist THEN NoDistance
        ELSE LevRows(short, long, [k \in 1..(Len(short) + 1) |-> k - 1], 1, max_dist)

\* levenshtein_distance_bounded
LevenshteinDistanceBounded(a, b, max_dist) ==
    LET short == IF Len(a) <= Len(b) THEN a ELSE b
        long  == IF Len(a) <= Len(b) THEN b ELSE a
    IN  IF Len(long) - Len(short) > max_dist THEN NoDistance
        ELSE LevRows(short, long, [k \in 1..(Len(short) + 1) |-> k - 1], 1, max_dist)

\* clamp_f64 (no NaN is drawn)
Clamp(value, lo, hi) == Min(Max(value, lo), hi)

\* the short-text path applies below this length
ShortTextLen == 6

\* mutant: the short path without the test of equal lengths
TextsAreSimilarAnyLength(a_key, b_key, threshold) ==
    IF a_key = b_key THEN TRUE
    ELSE LET a_len == Len(a_key)
             b_len == Len(b_key)
             min_len == Min(a_len, b_len)
             max_len == Max(a_len, b_len)
         IN  IF min_len < ShortTextLen
             THEN LET dist == LevenshteinDistanceBounded(a_key, b_key, 1)
                  IN  dist # NoDistance /\ dist <= 1
             ELSE LET t == Clamp(threshold, 0, 100)
                      max_dist == DivCeil((100 - t) * max_len, 100)
                  IN  IF max_dist = 0 THEN FALSE
                      ELSE LET dist == LevenshteinDistanceBounded(a_key, b_key, max_dist)
                           IN  /\ dist # NoDistance
                               /\ (max_len - dist) * 100 >= t * max_len

\* mutant: the long path without the test of the similarity
TextsAreSimilarWithinBound(a_key, b_key, threshold) ==
    IF a_key = b_key THEN TRUE
    ELSE LET a_len == Len(a_key)
             b_len == Len(b_key)
             min_len == Min(a_len, b_len)
             max_len == Max(a_len, b_len)
         IN  IF min_len < ShortTextLen
             THEN IF a_len # b_len THEN FALSE
                  ELSE LET dist == LevenshteinDistanceBounded(a_key, b_key, 1)
                       IN  dist # NoDistance /\ dist <= 1
             ELSE LET t == Clamp(threshold, 0, 100)
                      max_dist == DivCeil((100 - t) * max_len, 100)
                  IN  IF max_dist = 0 THEN FALSE
                      ELSE LevenshteinDistanceBounded(a_key, b_key, max_dist) # NoDistance

\* texts_are_similar; threshold in hundredths
TextsAreSimilar(a_key, b_key, threshold) ==
    IF a_key = b_key THEN TRUE
    ELSE LET a_len == Len(a_key)
             b_len == Len(b_key)
             min_len == Min(a_len, b_len)
             max_len == Max(a_len, b_len)
         IN  IF min_len < ShortTextLen
             THEN IF a_len # b_len THEN FALSE
                  ELSE LET dist == LevenshteinDistanceBounded(a_key, b_key, 1)
                       IN  dist # NoDistance /\ dist <= 1
             ELSE LET t == Clamp(threshold, 0, 100)
                      max_dist == DivCeil((100 - t) * max_len, 100)
                  IN  IF max_dist = 0 THEN FALSE
                      ELSE LET dist == LevenshteinDistanceBounded(a_key, b_key, max_dist)
                           IN  /\ dist # NoDistance
                               /\ (max_len - dist) * 100 >= t * max_len

\* ------------------------------------------------------------- URL filter

\* str::contains
Contains(text, pat) ==
    \E i \in 1..(Len(text) - Len(pat) + 1) : SubSeq(text, i, i + Len(pat) - 1) = pat

RECURSIVE SplitOn(_, _, _, _)
\* str::split: the pieces so far and the piece in progress
SplitOn(rest, seps, pieces, piece) ==
    IF rest = <<>> THEN Append(pieces, piece)
    ELSE IF Head(rest) \in seps
    THEN SplitOn(Tail(rest), seps, Append(pieces, piece), <<>>)
    ELSE SplitOn(Tail(rest), seps, pieces, Append(piece, Head(rest)))

Split(text, seps) == SplitOn(text, seps, <<>>, <<>>)

\* str::split_whitespace
SplitWhitespace(text) == SelectSeq(Split(text, WhitespaceChars), LAMBDA t : t # <<>>)

Alphabet ==
    AsciiLower \cup AsciiUpper \cup AsciiDigit \cup WhitespaceChars
        \cup AsciiPunctuationChars \cup CjkPunctuation \cup CjkLetters

\* |c| !c.is_ascii_alphanumeric() && c != '.' && c != '-'
DomainTrimChars == {c \in Alphabet : ~IsAsciiAlphanumeric(c) /\ c # "." /\ c # "-"}

\* token_looks_like_domain
TokenLooksLikeDomain(raw) ==
    LET token == TrimMatches(raw, DomainTrimChars)
        parts == Split(token, {"."})
    IN  IF Len(parts) < 2 \/ \E k \in 1..Len(parts) : parts[k] = <<>> THEN FALSE
        ELSE LET tld == parts[Len(parts)]
                 domain == parts[Len(parts) - 1]
             IN  IF \/ ~(ByteLen(tld) \in 2..6)
                    \/ ~(\A k \in 1..Len(tld) : IsAsciiAlphabetic(tld[k]))
                 THEN FALSE
                 ELSE IF \/ ByteLen(domain) < 2
                         \/ ~(\E k \in 1..Len(domain) : IsAsciiAlphabetic(domain[k]))
                 THEN FALSE
                 ELSE TRUE

SchemeMarkers ==
    { <<"h", "t", "t", "p", ":", "/", "/">>,
      <<"h", "t", "t", "p", "s", ":", "/", "/">>,
      <<"w", "w", "w", ".">> }

TldMarkers ==
    { <<".", "c", "o", "m">>, <<".", "n", "e", "t">>, <<".", "o", "r", "g">>,
      <<".", "c", "o">>, <<".", "i", "o">>, <<".", "m", "e">>, <<".", "t", "v">>,
      <<".", "a", "p", "p">> }

\* text_looks_url_like
TextLooksUrlLike(text) ==
    LET lower == ToLowercase(text)
        tokens == SplitWhitespace(lower)
    IN  IF \E m \in SchemeMarkers : Contains(lower, m) THEN TRUE
        ELSE IF \E m \in TldMarkers : Contains(lower, m) THEN TRUE
        ELSE \E k \in 1..Len(tokens) : TokenLooksLikeDomain(tokens[k])

\* -------------------------------------------------------- segments and cues

SegmentCandidate(key, text, confidence) ==
    [key |-> key, text |-> text, confidence |-> confidence]

\* SubtitleSegment { .. } opened by `frame`
SubtitleSegment(frame, key, display_text) ==
    [start_time |-> frame.time_ms,
     last_seen_time |-> frame.time_ms,
     last_seen_frame_index |-> frame.frame_index,
     baseline_key |-> key,
     baseline_confidence |-> frame.confidence,
     candidates |-> <<SegmentCandidate(key, display_text, frame.confidence)>>]

\* u64::saturating_sub
SaturatingSub(a, b) == Max(a - b, 0)

\* frame_end_time_ms
FrameEndTimeMs(frame_index, rate) == RoundDiv((frame_index + 1) * 1000, rate)

RECURSIVE KeyStatFrom(_, _, _)
\* the stats entry of `key`: or_insert((0, 0.0, c.text)), then the update
KeyStatFrom(candidates, key, stat) ==
    IF candidates = <<>> THEN stat
    ELSE LET c == Head(candidates)
         IN  IF c.key # key THEN KeyStatFrom(Tail(candidates), key, stat)
             ELSE LET e0 == IF stat.count = 0
                            THEN [count |-> 0, max_conf |-> 0, text |-> c.text]
                            ELSE stat
                      e1 == [e0 EXCEPT !.count = @ + 1]
                      e2 == IF c.confidence > e1.max_conf
                            THEN [e1 EXCEPT !.max_conf = c.confidence, !.text = c.text]
                            ELSE e1
                  IN  KeyStatFrom(Tail(candidates), key, e2)

CandidateKeys(candidates) == {candidates[k].key : k \in 1..Len(candidates)}

\* the `stats` map of select_segment_text
SegmentStats(candidates) ==
    [key \in CandidateKeys(candidates) |->
        KeyStatFrom(candidates, key, [count |-> 0, max_conf |-> 0, text |-> <<>>])]

\* the orders in which a HashMap over `keys` may be iterated
IterationOrders(keys) ==
    {o \in [1..Cardinality(keys) -> keys] :
        \A i, j \in 1..Cardinality(keys) : i # j => o[i] # o[j]}

RECURSIVE BestFrom(_, _, _)
\* the selection loop of select_segment_text over one iteration order
BestFrom(order, stats, best) ==
    IF order = <<>> THEN best
    ELSE LET st == stats[Head(order)]
             take == \/ st.max_conf > best.confidence
                     \/ (st.max_conf = best.confidence /\ st.count > best.count)
         IN  BestFrom(Tail(order), stats,
                      IF take
                      THEN [some |-> TRUE, count |-> st.count,
                            confidence |-> st.max_conf, text |-> st.text]
                      ELSE best)

\* mutant: select_segment_text returns the entry of whichever key comes first
SelectSegmentTextFirstKey(candidates) ==
    IF candidates = <<>> THEN {[some |-> FALSE, text |-> <<>>, confidence |-> -100]}
    ELSE {[some |-> TRUE, text |-> SegmentStats(candidates)[k].text,
           confidence |-> SegmentStats(candidates)[k].max_conf] :
             k \in CandidateKeys(candidates)}

\* select_segment_text: every value it may return (best_confidence starts at -1.0)
SelectSegmentText(candidates) ==
    IF candidates = <<>> THEN {[some |-> FALSE, text |-> <<>>, confidence |-> -100]}
    ELSE {LET b == BestFrom(o, SegmentStats(candidates),
                            [some |-> FALSE, count |-> 0, confidence |-> -100, text |-> <<>>])
          IN  [some |-> b.some, text |-> b.text, confidence |-> b.confidence] :
             o \in IterationOrders(CandidateKeys(candidates))}

\* format!("sub-{}", n)
SubId(n) == <<"sub-", n>>

OcrSubtitleEntry(n, text, start_time, end_time, confidence) ==
    [id |-> SubId(n), text |-> text, start_time |-> start_time,
     end_time |-> end_time, confidence |-> confidence]

\* mutant: the cue's end is the computed end, never forced past the start
CueOfUnforced(seg, picked, rate, n) ==
    OcrSubtitleEntry(n, picked.text, seg.start_time,
                     FrameEndTimeMs(seg.last_seen_frame_index, rate), picked.confidence)

\* one pass of the loop over `segments` that builds a cue
CueOf(seg, picked, rate, n) ==
    LET end_time == FrameEndTimeMs(seg.last_seen_frame_index, rate)
    IN  OcrSubtitleEntry(n, picked.text, seg.start_time,
                         IF end_time <= seg.start_time THEN seg.start_time + 1 ELSE end_time,
                         picked.confidence)

RECURSIVE BuildCues(_, _, _)
\* the loop over `segments`: every `subtitles` it may build
BuildCues(segs, rate, acc) ==
    IF segs = <<>> THEN {acc}
    ELSE UNION {IF picked.some
                THEN BuildCues(Tail(segs), rate,
                               Append(acc, CueOf(Head(segs), picked, rate, Len(acc) + 1)))
                ELSE BuildCues(Tail(segs), rate, acc) :
                   picked \in SelectSegmentText(Head(segs).candidates)}

\* mutant: retain keeps every cue
RetainEveryCue(subs, cleanup) == subs

\* subtitles.retain(|s| !text_looks_url_like(&s.text)) under filter_url_like
RetainNotUrlLike(subs, cleanup) ==
    IF cleanup.filter_url_like
    THEN SelectSeq(subs, LAMBDA sub : ~TextLooksUrlLike(sub.text))
    ELSE subs

\* the lower bound, upper bound and relaxed value of the threshold, in hundredths
ThresholdMin == 80

ThresholdMax == 98

\* mutant: the configured threshold taken as it is
SimilarityThresholdAsConfigured(cleanup) ==
    IF cleanup.merge_similar THEN cleanup.similarity_threshold ELSE 100

\* similarity_threshold
SimilarityThreshold(cleanup) ==
    IF cleanup.merge_similar
    THEN Clamp(cleanup.similarity_threshold, ThresholdMin, ThresholdMax)
    ELSE 100

\* mutant: the merge condition without the relaxed test for short cues
MergesIntoStrictOnly(prev, sub, cleanup) ==
    /\ SaturatingSub(sub.start_time, prev.end_time) <= cleanup.max_gap_ms
    /\ TextsAreSimilar(NormalizeTextForCompare(prev.text),
                       NormalizeTextForCompare(sub.text), SimilarityThreshold(cleanup))

\* the merge condition of two adjacent cues
MergesInto(prev, sub, cleanup) ==
    LET gap == SaturatingSub(sub.start_time, prev.end_time)
        prev_key == NormalizeTextForCompare(prev.text)
        sub_key == NormalizeTextForCompare(sub.text)
        prev_dur == SaturatingSub(prev.end_time, prev.start_time)
        sub_dur == SaturatingSub(sub.end_time, sub.start_time)
        similar_strict == TextsAreSimilar(prev_key, sub_key, SimilarityThreshold(cleanup))
        similar_short == TextsAreSimilar(prev_key, sub_key, ThresholdMin)
        is_short == \/ prev_dur < cleanup.min_cue_duration_ms
                    \/ sub_dur < cleanup.min_cue_duration_ms
    IN  gap <= cleanup.max_gap_ms /\ (similar_strict \/ (is_short /\ similar_short))

\* the update of `prev` when `sub` merges into it
Absorb(prev, sub) ==
    [prev EXCEPT
        !.end_time = Max(prev.end_time, sub.end_time),
        !.text = IF \/ sub.confidence > prev.confidence
                    \/ (sub.confidence = prev.confidence
                        /\ ByteLen(sub.text) > ByteLen(prev.text))
                 THEN sub.text ELSE prev.text,
        !.confidence = Max(prev.confidence, sub.confidence)]

RECURSIVE MergeFrom(_, _, _)
\* the loop `for sub in subtitles` over `merged`
MergeFrom(rest, merged, cleanup) ==
    IF rest = <<>> THEN merged
    ELSE LET sub == Head(rest)
         IN  IF merged # <<>> /\ MergesInto(merged[Len(merged)], sub, cleanup)
             THEN MergeFrom(Tail(rest),
                            [merged EXCEPT ![Len(merged)] = Absorb(@, sub)], cleanup)
             ELSE MergeFrom(Tail(rest), Append(merged, sub), cleanup)

\* for (i, sub) in merged.iter_mut().enumerate() { sub.id = .. }
Renumber(subs) == [i \in 1..Len(subs) |-> [subs[i] EXCEPT !.id = SubId(i)]]

\* mutant: the merge pass left out
MergeAdjacentSkipped(subs, cleanup) == subs

\* the merge pass
MergeAdjacent(subs, cleanup) ==
    IF cleanup.merge_similar /\ Len(subs) > 1
    THEN Renumber(MergeFrom(subs, <<>>, cleanup))
    ELSE subs

\* --------------------------------------------- generate_subtitles_core

\* if fps <= 0.0
GenerateFpsRejected(rate) == rate <= 0

\* the period of the progress callback, in frames
ProgressEvery == 100

GenReturnErr(e) ==
    /\ gen_pc' = "returned"
    /\ gen_result' = [ok |-> FALSE, err |-> e, subtitles |-> <<>>]

GenReturnOk(subs) ==
    /\ gen_pc' = "returned"
    /\ gen_result' = [ok |-> TRUE, err |-> NoError, subtitles |-> subs]

\* the call, up to the loop over frame_results
GenerateSubtitlesCall(rate, n, min_conf, cleanup) ==
    /\ gen_pc = "idle"
    /\ gen_fps' = rate
    /\ gen_total' = n
    /\ gen_min_confidence' = min_conf
    /\ gen_cleanup' = cleanup
    /\ IF GenerateFpsRejected(rate)
       THEN GenReturnErr(ErrFps)
       ELSE /\ gen_pc' = "fold"
            /\ UNCHANGED gen_result
    /\ UNCHANGED <<gen_frames, segments, current, progress_calls, subtitles, cues, filtered,
                   strict_thresholds, merge_log>>
    /\ UNCHANGED <<ocrVars, pureVars, previewVars, copyVars, sleepVars>>

\* mutant: a frame is valid whatever its confidence
IsValidAnyConfidence(frame, key, min_conf) == key # <<>>

\* let is_valid = frame.confidence >= min_confidence && !key.is_empty()
IsValid(frame, key, min_conf) ==
    frame.confidence >= Clamp(min_conf, 0, 100) /\ key # <<>>

\* mutant: a valid frame that finds no segment open reopens the last closed one
FoldFrameReopening(segs, cur, frame, min_conf, cleanup) ==
    LET display_text == CollapseWhitespace(frame.text)
        key == NormalizeTextForCompare(display_text)
        is_valid == IsValid(frame, key, min_conf)
        opened == SubtitleSegment(frame, key, display_text)
    IN  IF ~is_valid
        THEN IF cur # <<>> /\ SaturatingSub(frame.time_ms, cur[1].last_seen_time) > cleanup.max_gap_ms
             THEN [segments |-> Append(segs, cur[1]), current |-> <<>>]
             ELSE [segments |-> segs, current |-> cur]
        ELSE IF cur # <<>>
        THEN LET seg == cur[1]
                 gap == SaturatingSub(frame.time_ms, seg.last_seen_time)
                 similar == IF cleanup.merge_similar
                            THEN TextsAreSimilar(seg.baseline_key, key, SimilarityThreshold(cleanup))
                            ELSE seg.baseline_key = key
                 raised == frame.confidence > seg.baseline_confidence
                 extended ==
                     [seg EXCEPT
                        !.last_seen_time = frame.time_ms,
                        !.last_seen_frame_index = frame.frame_index,
                        !.candidates = Append(@, SegmentCandidate(key, display_text, frame.confidence)),
                        !.baseline_key = IF raised THEN key ELSE @,
                        !.baseline_confidence = IF raised THEN frame.confidence ELSE @]
             IN  IF gap > cleanup.max_gap_ms
                 THEN [segments |-> Append(segs, seg), current |-> <<opened>>]
                 ELSE IF similar
                 THEN [segments |-> segs, current |-> <<extended>>]
                 ELSE [segments |-> Append(segs, seg), current |-> <<opened>>]
        ELSE IF segs # <<>>
        THEN [segments |-> SubSeq(segs, 1, Len(segs) - 1), current |-> <<segs[Len(segs)]>>]
        ELSE [segments |-> segs, current |-> <<opened>>]

\* mutant: an invalid frame within the gap counts as seen
FoldFrameInvalidSeen(segs, cur, frame, min_conf, cleanup) ==
    LET display_text == CollapseWhitespace(frame.text)
        key == NormalizeTextForCompare(display_text)
        is_valid == IsValid(frame, key, min_conf)
        opened == SubtitleSegment(frame, key, display_text)
    IN  IF ~is_valid
        THEN IF cur # <<>> /\ SaturatingSub(frame.time_ms, cur[1].last_seen_time) > cleanup.max_gap_ms
             THEN [segments |-> Append(segs, cur[1]), current |-> <<>>]
             ELSE [segments |-> segs,
                   current |-> IF cur = <<>> THEN cur
                               ELSE <<[cur[1] EXCEPT !.last_seen_time = frame.time_ms]>>]
        ELSE IF cur # <<>>
        THEN LET seg == cur[1]
                 gap == SaturatingSub(frame.time_ms, seg.last_seen_time)
                 similar == IF cleanup.merge_similar
                            THEN TextsAreSimilar(seg.baseline_key, key, SimilarityThreshold(cleanup))
                            ELSE seg.baseline_key = key
                 raised == frame.confidence > seg.baseline_confidence
                 extended ==
                     [seg EXCEPT
                        !.last_seen_time = frame.time_ms,
                        !.last_seen_frame_index = frame.frame_index,
                        !.candidates = Append(@, SegmentCandidate(key, display_text, frame.confidence)),
                        !.baseline_key = IF raised THEN key ELSE @,
                        !.baseline_confidence = IF raised THEN frame.confidence ELSE @]
             IN  IF gap > cleanup.max_gap_ms
                 THEN [segments |-> Append(segs, seg), current |-> <<opened>>]
                 ELSE IF similar
                 THEN [segments |-> segs, current |-> <<extended>>]
                 ELSE [segments |-> Append(segs, seg), current |-> <<opened>>]
        ELSE [segments |-> segs, current |-> <<opened>>]

\* mutant: the frame is compared with the latest candidate of the segment
FoldFrameLatestKey(segs, cur, frame, min_conf, cleanup) ==
    LET display_text == CollapseWhitespace(frame.text)
        key == NormalizeTextForCompare(display_text)
        is_valid == IsValid(frame, key, min_conf)
        opened == SubtitleSegment(frame, key, display_text)
    IN  IF ~is_valid
        THEN IF cur # <<>> /\ SaturatingSub(frame.time_ms, cur[1].last_seen_time) > cleanup.max_gap_ms
             THEN [segments |-> Append(segs, cur[1]), current |-> <<>>]
             ELSE [segments |-> segs, current |-> cur]
        ELSE IF cur # <<>>
        THEN LET seg == cur[1]
                 gap == SaturatingSub(frame.time_ms, seg.last_seen_time)
                 similar == IF cleanup.merge_similar
                            THEN TextsAreSimilar(seg.candidates[Len(seg.candidates)].key, key, SimilarityThreshold(cleanup))
                            ELSE seg.candidates[Len(seg.candidates)].key = key
                 raised == frame.confidence > seg.baseline_confidence
                 extended ==
                     [seg EXCEPT
                        !.last_seen_time = frame.time_ms,
                        !.last_seen_frame_index = frame.frame_index,
                        !.candidates = Append(@, SegmentCandidate(key, display_text, frame.confidence)),
                        !.baseline_key = IF raised THEN key ELSE @,
                        !.baseline_confidence = IF raised THEN frame.confidence ELSE @]
             IN  IF gap > cleanup.max_gap_ms
                 THEN [segments |-> Append(segs, seg), current |-> <<opened>>]
                 ELSE IF similar
                 THEN [segments |-> segs, current |-> <<extended>>]
                 ELSE [segments |-> Append(segs, seg), current |-> <<opened>>]
        ELSE [segments |-> segs, current |-> <<opened>>]

\* mutant: a frame of the baseline's confidence replaces the baseline too
FoldFrameRaisedOnTie(segs, cur, frame, min_conf, cleanup) ==
    LET display_text == CollapseWhitespace(frame.text)
        key == NormalizeTextForCompare(display_text)
        is_valid == IsValid(frame, key, min_conf)
        opened == SubtitleSegment(frame, key, display_text)
    IN  IF ~is_valid
        THEN IF cur # <<>> /\ SaturatingSub(frame.time_ms, cur[1].last_seen_time) > cleanup.max_gap_ms
             THEN [segments |-> Append(segs, cur[1]), current |-> <<>>]
             ELSE [segments |-> segs, current |-> cur]
        ELSE IF cur # <<>>
        THEN LET seg == cur[1]
                 gap == SaturatingSub(frame.time_ms, seg.last_seen_time)
                 similar == IF cleanup.merge_similar
                            THEN TextsAreSimilar(seg.baseline_key, key, SimilarityThreshold(cleanup))
                            ELSE seg.baseline_key = key
                 raised == frame.confidence >= seg.baseline_confidence
                 extended ==
                     [seg EXCEPT
                        !.last_seen_time = frame.time_ms,
                        !.last_seen_frame_index = frame.frame_index,
                        !.candidates = Append(@, SegmentCandidate(key, display_text, frame.confidence)),
                        !.baseline_key = IF raised THEN key ELSE @,
                        !.baseline_confidence = IF raised THEN frame.confidence ELSE @]
             IN  IF gap > cleanup.max_gap_ms
                 THEN [segments |-> Append(segs, seg), current |-> <<opened>>]
                 ELSE IF similar
                 THEN [segments |-> segs, current |-> <<extended>>]
                 ELSE [segments |-> Append(segs, seg), current |-> <<opened>>]
        ELSE [segments |-> segs, current |-> <<opened>>]

\* mutant: a closed segment is put in front of the list
FoldFrameClosePrepends(segs, cur, frame, min_conf, cleanup) ==
    LET display_text == CollapseWhitespace(frame.text)
        key == NormalizeTextForCompare(display_text)
        is_valid == IsValid(frame, key, min_conf)
        opened == SubtitleSegment(frame, key, display_text)
    IN  IF ~is_valid
        THEN IF cur # <<>> /\ SaturatingSub(frame.time_ms, cur[1].last_seen_time) > cleanup.max_gap_ms
             THEN [segments |-> <<cur[1]>> \o segs, current |-> <<>>]
             ELSE [segments |-> segs, current |-> cur]
        ELSE IF cur # <<>>
        THEN LET seg == cur[1]
                 gap == SaturatingSub(frame.time_ms, seg.last_seen_time)
                 similar == IF cleanup.merge_similar
                            THEN TextsAreSimilar(seg.baseline_key, key, SimilarityThreshold(cleanup))
                            ELSE seg.baseline_key = key
                 raised == frame.confidence > seg.baseline_confidence
                 extended ==
                     [seg EXCEPT
                        !.last_seen_time = frame.time_ms,
                        !.last_seen_frame_index = frame.frame_index,
                        !.candidates = Append(@, SegmentCandidate(key, display_text, frame.confidence)),
                        !.baseline_key = IF raised THEN key ELSE @,
                        !.baseline_confidence = IF raised THEN frame.confidence ELSE @]
             IN  IF gap > cleanup.max_gap_ms
                 THEN [segments |-> <<seg>> \o segs, current |-> <<opened>>]
                 ELSE IF similar
                 THEN [segments |-> segs, current |-> <<extended>>]
                 ELSE [segments |-> <<seg>> \o segs, current |-> <<opened>>]
        ELSE [segments |-> segs, current |-> <<opened>>]

\* mutant: a frame that extends the open segment adds no candidate
FoldFrameCandidateSkipped(segs, cur, frame, min_conf, cleanup) ==
    LET display_text == CollapseWhitespace(frame.text)
        key == NormalizeTextForCompare(display_text)
        is_valid == IsValid(frame, key, min_conf)
        opened == SubtitleSegment(frame, key, display_text)
    IN  IF ~is_valid
        THEN IF cur # <<>> /\ SaturatingSub(frame.time_ms, cur[1].last_seen_time) > cleanup.max_gap_ms
             THEN [segments |-> Append(segs, cur[1]), current |-> <<>>]
             ELSE [segments |-> segs, current |-> cur]
        ELSE IF cur # <<>>
        THEN LET seg == cur[1]
                 gap == SaturatingSub(frame.time_ms, seg.last_seen_time)
                 similar == IF cleanup.merge_similar
                            THEN TextsAreSimilar(seg.baseline_key, key, SimilarityThreshold(cleanup))
                            ELSE seg.baseline_key = key
                 raised == frame.confidence > seg.baseline_confidence
                 extended ==
                     [seg EXCEPT
                        !.last_seen_time = frame.time_ms,
                        !.last_seen_frame_index = frame.frame_index,
                        !.baseline_key = IF raised THEN key ELSE @,
                        !.baseline_confidence = IF raised THEN frame.confidence ELSE @]
             IN  IF gap > cleanup.max_gap_ms
                 THEN [segments |-> Append(segs, seg), current |-> <<opened>>]
                 ELSE IF similar
                 THEN [segments |-> segs, current |-> <<extended>>]
                 ELSE [segments |-> Append(segs, seg), current |-> <<opened>>]
        ELSE [segments |-> segs, current |-> <<opened>>]

\* `segments` and `current` after the loop body has run on `frame`
FoldFrame(segs, cur, frame, min_conf, cleanup) ==
    LET display_text == CollapseWhitespace(frame.text)
        key == NormalizeTextForCompare(display_text)
        is_valid == IsValid(frame, key, min_conf)
        opened == SubtitleSegment(frame, key, display_text)
    IN  IF ~is_valid
        THEN IF cur # <<>> /\ SaturatingSub(frame.time_ms, cur[1].last_seen_time) > cleanup.max_gap_ms
             THEN [segments |-> Append(segs, cur[1]), current |-> <<>>]
             ELSE [segments |-> segs, current |-> cur]
        ELSE IF cur # <<>>
        THEN LET seg == cur[1]
                 gap == SaturatingSub(frame.time_ms, seg.last_seen_time)
                 similar == IF cleanup.merge_similar
                            THEN TextsAreSimilar(seg.baseline_key, key, SimilarityThreshold(cleanup))
                            ELSE seg.baseline_key = key
                 raised == frame.confidence > seg.baseline_confidence
                 extended ==
                     [seg EXCEPT
                        !.last_seen_time = frame.time_ms,
                        !.last_seen_frame_index = frame.frame_index,
                        !.candidates = Append(@, SegmentCandidate(key, display_text, frame.confidence)),
                        !.baseline_key = IF raised THEN key ELSE @,
                        !.baseline_confidence = IF raised THEN frame.confidence ELSE @]
             IN  IF gap > cleanup.max_gap_ms
                 THEN [segments |-> Append(segs, seg), current |-> <<opened>>]
                 ELSE IF similar
                 THEN [segments |-> segs, current |-> <<extended>>]
                 ELSE [segments |-> Append(segs, seg), current |-> <<opened>>]
        ELSE [segments |-> segs, current |-> <<opened>>]

\* the frame_results element after `frames`: OcrFrameResult { .. }; frame
\* indices ascend, and a frame whose OCR failed leaves a gap
NextFrame(frames, rate, reading, gap) ==
    LET idx == IF frames = <<>> THEN 0 ELSE frames[Len(frames)].frame_index + gap
    IN  [frame_index |-> idx, time_ms |-> TimeMs(idx, rate),
         text |-> reading.text, confidence |-> reading.confidence]

\* the loop body, run on `frame`, reaches the call of texts_are_similar
FoldCompares(cur, frame, min_conf, cleanup) ==
    LET key == NormalizeTextForCompare(CollapseWhitespace(frame.text))
    IN  /\ frame.confidence >= Clamp(min_conf, 0, 100)
        /\ key # <<>>
        /\ cur # <<>>
        /\ SaturatingSub(frame.time_ms, cur[1].last_seen_time) <= cleanup.max_gap_ms
        /\ cleanup.merge_similar

RECURSIVE MergeLogFrom(_, _, _, _)
\* the tests of the merge scan in order: the last kept cue as it is at the
\* test (<<>> for the first cue), the cue, and whether the cue was absorbed
MergeLogFrom(rest, merged, cleanup, log) ==
    IF rest = <<>> THEN log
    ELSE LET sub == Head(rest)
             absorbed == merged # <<>> /\ MergesInto(merged[Len(merged)], sub, cleanup)
             tested == [kept |-> IF merged = <<>> THEN <<>> ELSE <<merged[Len(merged)]>>,
                        sub |-> sub, absorbed |-> absorbed]
         IN  MergeLogFrom(Tail(rest),
                          IF absorbed
                          THEN [merged EXCEPT ![Len(merged)] = Absorb(@, sub)]
                          ELSE Append(merged, sub),
                          cleanup, Append(log, tested))

\* the log of the merge pass, empty when the pass does not run
MergeLog(subs, cleanup) ==
    IF cleanup.merge_similar /\ Len(subs) > 1
    THEN MergeLogFrom(subs, <<>>, cleanup, <<>>)
    ELSE <<>>

\* one iteration of `for (i, frame) in frame_results.iter().enumerate()`
GenerateFold(reading, gap) ==
    /\ gen_pc = "fold"
    /\ Len(gen_frames) < gen_total
    /\ LET i == Len(gen_frames)
           frame == NextFrame(gen_frames, gen_fps, reading, gap)
           after == FoldFrame(segments, current, frame, gen_min_confidence, gen_cleanup)
       IN  /\ segments' = after.segments
           /\ current' = after.current
           /\ progress_calls' = IF i % ProgressEvery = 0
                                THEN Append(progress_calls, <<i, gen_total>>)
                                ELSE progress_calls
           /\ gen_frames' = Append(gen_frames, frame)
           /\ strict_thresholds' =
                 IF FoldCompares(current, frame, gen_min_confidence, gen_cleanup)
                 THEN strict_thresholds \cup {SimilarityThreshold(gen_cleanup)}
                 ELSE strict_thresholds
    /\ UNCHANGED <<gen_pc, gen_fps, gen_total, gen_min_confidence, gen_cleanup,
                   subtitles, cues, filtered, gen_result, merge_log>>
    /\ UNCHANGED <<ocrVars, pureVars, previewVars, copyVars, sleepVars>>

\* after the loop: the open segment is closed, the cues are built, filtered, merged
GenerateFinish ==
    /\ gen_pc = "fold"
    /\ Len(gen_frames) = gen_total
    /\ segments' = segments \o current
    /\ current' = <<>>
    /\ cues' \in BuildCues(segments', gen_fps, <<>>)
    /\ filtered' = RetainNotUrlLike(cues', gen_cleanup)
    /\ subtitles' = MergeAdjacent(filtered', gen_cleanup)
    /\ merge_log' = MergeLog(filtered', gen_cleanup)
    /\ strict_thresholds' =
          IF merge_log' # <<>>
          THEN strict_thresholds \cup {SimilarityThreshold(gen_cleanup)}
          ELSE strict_thresholds
    /\ GenReturnOk(subtitles')
    /\ UNCHANGED <<gen_fps, gen_total, gen_min_confidence, gen_cleanup, gen_frames,
                   progress_calls>>
    /\ UNCHANGED <<ocrVars, pureVars, previewVars, copyVars, sleepVars>>

\* ------------------------------------------------------------ the inputs

\* the most frames a call of generate_subtitles_core is given
MaxGenFrames == 3

GenFpsValues == {-1, 0, 4}

MinConfidenceValues == {50}

CleanupValues ==
    { DefaultCleanup,
      [merge_similar |-> FALSE, similarity_threshold |-> 92, max_gap_ms |-> 250,
       min_cue_duration_ms |-> 500, filter_url_like |-> FALSE],
      [merge_similar |-> TRUE, similarity_threshold |-> 50, max_gap_ms |-> 500,
       min_cue_duration_ms |-> 0, filter_url_like |-> TRUE] }

\* what OCR may have read in a frame: text and confidence
FrameReadings ==
    { [text |-> <<"H", "i", "!">>, confidence |-> 90],
      [text |-> <<"h", "i">>, confidence |-> 95],
      [text |-> <<"h", "o">>, confidence |-> 90],
      [text |-> <<"s", "u", "b", "t", "i", "t", "l", "e">>, confidence |-> 90],
      [text |-> <<"s", "u", "b", "t", "i", "t", "l", "f">>, confidence |-> 60],
      [text |-> <<"a", ".", "i", "o">>, confidence |-> 90],
      [text |-> <<" ", "!">>, confidence |-> 90],
      [text |-> <<"h", "i">>, confidence |-> 30] }

\* the step from one frame index to the next
FrameGaps == {1, 2}

NextGen ==
    \/ \E rate \in GenFpsValues, n \in 0..MaxGenFrames, min_conf \in MinConfidenceValues,
          cleanup \in CleanupValues :
          GenerateSubtitlesCall(rate, n, min_conf, cleanup)
    \/ \E reading \in FrameReadings, gap \in FrameGaps : GenerateFold(reading, gap)
    \/ GenerateFinish

SpecGen == Init /\ [][NextGen]_vars

\* ---------------------------------------- the inputs at the edges of the options

\* a configured threshold below the clamp range
LowThresholdCleanup ==
    [merge_similar |-> TRUE, similarity_threshold |-> 50, max_gap_ms |-> 500,
     min_cue_duration_ms |-> 0, filter_url_like |-> TRUE]

\* a configured threshold above the clamp range, a gap below the frame interval
\* of 4 frames a second, and no cue counted as short
HighThresholdCleanup ==
    [merge_similar |-> TRUE, similarity_threshold |-> 100, max_gap_ms |-> 100,
     min_cue_duration_ms |-> 0, filter_url_like |-> FALSE]

\* the default options with merge_similar off
MergeOffCleanup == [DefaultCleanup EXCEPT !.merge_similar = FALSE]

\* fps and cleanup options of a call; at 3000 frames a second a frame lasts a
\* third of a millisecond
EdgeConfigs ==
    { <<4, DefaultCleanup>>, <<4, LowThresholdCleanup>>, <<4, HighThresholdCleanup>>,
      <<4, MergeOffCleanup>>, <<3000, DefaultCleanup>>, <<3000, HighThresholdCleanup>> }

\* FrameReadings with a reading that holds a three-byte character
EdgeReadings ==
    { [text |-> <<"H", "i", "!">>, confidence |-> 90],
      [text |-> <<"h", "i">>, confidence |-> 95],
      [text |-> <<"h", "o">>, confidence |-> 90],
      [text |-> <<"ZH_1", "i">>, confidence |-> 90],
      [text |-> <<"s", "u", "b", "t", "i", "t", "l", "e">>, confidence |-> 90],
      [text |-> <<"s", "u", "b", "t", "i", "t", "l", "f">>, confidence |-> 60],
      [text |-> <<"a", ".", "i", "o">>, confidence |-> 90],
      [text |-> <<" ", "!">>, confidence |-> 90] }

NextGenEdge ==
    \/ \E cfg \in EdgeConfigs, n \in 0..MaxGenFrames, min_conf \in MinConfidenceValues :
          GenerateSubtitlesCall(cfg[1], n, min_conf, cfg[2])
    \/ \E reading \in EdgeReadings, gap \in FrameGaps : GenerateFold(reading, gap)
    \/ GenerateFinish

SpecGenEdge == Init /\ [][NextGenEdge]_vars

\* ------------------------------------------ the inputs at the edges of min_confidence

\* min_confidence below, inside and above the range of a confidence
ConfidenceEdgeMinimums == {-50, 50, 150}

ConfidenceEdgeCleanups == {DefaultCleanup, HighThresholdCleanup}

\* readings at the top of the confidence range, below the usual minimum, with
\* an empty key, and URL-like
ConfidenceEdgeReadings ==
    { [text |-> <<"h", "i">>, confidence |-> 100],
      [text |-> <<"h", "i">>, confidence |-> 30],
      [text |-> <<"h", "o">>, confidence |-> 90],
      [text |-> <<" ", "!">>, confidence |-> 90],
      [text |-> <<"a", ".", "i", "o">>, confidence |-> 90] }

NextGenConfidence ==
    \/ \E n \in 0..MaxGenFrames, min_conf \in ConfidenceEdgeMinimums,
          cleanup \in ConfidenceEdgeCleanups :
          GenerateSubtitlesCall(4, n, min_conf, cleanup)
    \/ \E reading \in ConfidenceEdgeReadings, gap \in FrameGaps : GenerateFold(reading, gap)
    \/ GenerateFinish

SpecGenConfidence == Init /\ [][NextGenConfidence]_vars

\* ------------------------------------------------- texts_are_similar on its own

\* the most characters of a key given to texts_are_similar
MaxKeyLen == 6

\* the characters of the keys: one of one byte, one of three
KeyAlphabet == {"a", "ZH_1"}

\* the keys of at most n characters
KeysUpTo(n) == UNION {[1..k -> KeyAlphabet] : k \in 0..n}

\* thresholds below, at the ends of and inside the clamp range
SimilarityThresholds == {0, 85, 100}

\* a call texts_are_similar(a_key, b_key, threshold) about to be made
InitSim ==
    /\ InitCalls
    /\ fn_name = "texts_are_similar"
    /\ fn_args \in KeysUpTo(MaxKeyLen) \X KeysUpTo(MaxKeyLen) \X SimilarityThresholds
    /\ fn_out = <<>>

\* the call returns
TextsAreSimilarReturns ==
    /\ fn_name = "texts_are_similar"
    /\ fn_out = <<>>
    /\ fn_out' = <<TextsAreSimilar(fn_args[1], fn_args[2], fn_args[3])>>
    /\ UNCHANGED <<fn_name, fn_args>>
    /\ UNCHANGED <<ocrVars, genVars, previewVars, copyVars, sleepVars>>

NextSim == TextsAreSimilarReturns

SpecSim == InitSim /\ [][NextSim]_vars

\* ------------------------------------ texts_are_similar on keys of 6 characters and more

\* the most characters of a key on the long path
MaxLongKeyLen == 7

\* the characters both keys start with
LongKeyPrefix == <<"a", "ZH_1">>

\* the keys of ShortTextLen to n characters that start with LongKeyPrefix
LongKeysUpTo(n) ==
    {LongKeyPrefix \o tail :
        tail \in UNION {[1..k -> KeyAlphabet] :
                           k \in (ShortTextLen - Len(LongKeyPrefix))..(n - Len(LongKeyPrefix))}}

\* thresholds below, inside and above the range [0, 1]
LongPathThresholds == {-50, 50, 80, 85, 100, 150}

\* a call texts_are_similar(a_key, b_key, threshold) on two long keys about
\* to be made
InitSimLong ==
    /\ InitCalls
    /\ fn_name = "texts_are_similar"
    /\ fn_args \in LongKeysUpTo(MaxLongKeyLen) \X LongKeysUpTo(MaxLongKeyLen) \X LongPathThresholds
    /\ fn_out = <<>>

SpecSimLong == InitSimLong /\ [][NextSim]_vars

\* --------------------------------------------- normalize_text_for_compare on its own

\* the most characters of a text given to normalize_text_for_compare
MaxTextLen == 5

\* a lower-case and an upper-case letter, two whitespace characters, an ASCII
\* and a full-width punctuation mark, a letter outside ASCII
TextAlphabet == {"a", "A", " ", "\t", "!", "FW_STOP", "ZH_1"}

\* the texts of at most n characters
TextsUpTo(n) == UNION {[1..k -> TextAlphabet] : k \in 0..n}

\* a call normalize_text_for_compare(text) about to be made
InitNormalize ==
    /\ InitCalls
    /\ fn_name = "normalize_text_for_compare"
    /\ fn_args \in {<<text>> : text \in TextsUpTo(MaxTextLen)}
    /\ fn_out = <<>>

\* the call returns; a second call is made on the result of the first
NormalizeReturns ==
    /\ fn_name = "normalize_text_for_compare"
    /\ Len(fn_out) < 2
    /\ fn_out' = Append(fn_out,
                        NormalizeTextForCompare(IF fn_out = <<>> THEN fn_args[1]
                                                ELSE fn_out[Len(fn_out)]))
    /\ UNCHANGED <<fn_name, fn_args>>
    /\ UNCHANGED <<ocrVars, genVars, previewVars, copyVars, sleepVars>>

NextNormalize == NormalizeReturns

SpecNormalize == InitNormalize /\ [][NextNormalize]_vars

\* ---------------------------------------------------- select_segment_text on its own

\* the most candidates of a segment given to select_segment_text
MaxCandidates == 3

\* display texts of two keys, two of each
CandidateTexts ==
    { <<"H", "i", "!">>, <<"h", "i">>, <<"h", "o">>, <<"H", "o", "!">> }

\* confidences of valid frames: the least possible and two usual ones
CandidateConfidences == {0, 90, 95}

\* the candidates a valid frame adds to a segment
Candidates ==
    {SegmentCandidate(NormalizeTextForCompare(CollapseWhitespace(text)),
                      CollapseWhitespace(text), confidence) :
        text \in CandidateTexts, confidence \in CandidateConfidences}

\* a call select_segment_text(&candidates) about to be made
InitSelect ==
    /\ InitCalls
    /\ fn_name = "select_segment_text"
    /\ fn_args \in {<<list>> : list \in UNION {[1..k -> Candidates] : k \in 0..MaxCandidates}}
    /\ fn_out = <<>>

\* the call returns, the HashMap having been iterated in one of its orders
SelectReturns ==
    /\ fn_name = "select_segment_text"
    /\ fn_out = <<>>
    /\ \E picked \in SelectSegmentText(fn_args[1]) : fn_out' = <<picked>>
    /\ UNCHANGED <<fn_name, fn_args>>
    /\ UNCHANGED <<ocrVars, genVars, previewVars, copyVars, sleepVars>>

NextSelect == SelectReturns

SpecSelect == InitSelect /\ [][NextSelect]_vars

\* One command is invoked per behaviour: perform_ocr (or perform_ocr_core) and
\* generate_subtitles_core share no state, so their interleavings add nothing.
NextCommand ==
    \/ /\ gen_pc = "idle"
       /\ \E fid \in JobIds, rate \in FpsValues, nw \in 0..MaxWorkers, dir \in PathStates :
             PerformOcrCall(fid, rate, nw, dir)
    \/ /\ gen_pc = "idle"
       /\ \E rate \in FpsValues, nw \in 0..MaxWorkers, dir \in PathStates,
             read_ok \in BOOLEAN, n \in 0..MaxFrames, pool_ok \in BOOLEAN :
             PerformOcrCoreCall(rate, nw, dir, read_ok, n, pool_ok)
    \/ OcrSteps
    \/ /\ callPc = "idle"
       /\ \E rate \in GenFpsValues, n \in 0..MaxGenFrames,
             min_conf \in MinConfidenceValues, cleanup \in CleanupValues :
             GenerateSubtitlesCall(rate, n, min_conf, cleanup)
    \/ \E reading \in FrameReadings, gap \in FrameGaps : GenerateFold(reading, gap)
    \/ GenerateFinish

SpecCommand == Init /\ [][NextCommand]_vars

\* Fairness: a call in progress is carried on, every rayon thread runs, and a
\* step on a frame ends.  Calls and cancel requests come from outside: no
\* fairness is assumed of them.
OcrProgress ==
    \/ \E models_ok \in BOOLEAN, read_ok \in BOOLEAN, n \in 0..MaxFrames, pool_ok \in BOOLEAN :
          PerformOcrSetup(models_ok, read_ok, n, pool_ok)
    \/ \E w \in Workers : WorkerBegin(w) \/ WorkerSkip(w) \/ WorkerEntryCheck(w)
                              \/ WorkerNextFrame(w)
    \/ \E w \in Workers, outcome \in EngineOutcomes : WorkerCreateEngine(w, outcome)
    \/ \E w \in Workers, outcome \in FrameOutcomes : WorkerFrame(w, outcome)
    \/ PerformOcrJoin

FairSpecOcr == Init /\ [][NextOcr]_vars /\ WF_vars(OcrProgress)

\* ------------------------------------------------------------------ claims

Returned == callPc = "returned"

PoolRan == Workers # {}

InputIndices == 0..(total_frames - 1)

FrameIndices(s) == {s[i].frame_index : i \in 1..Len(s)}

StrictlyAscending(s) ==
    \A i \in 1..(Len(s) - 1) : s[i].frame_index < s[i + 1].frame_index

Occurrences(s, frame_index) ==
    Cardinality({i \in 1..Len(s) : s[i].frame_index = frame_index})

\* frames of chunk w that its closure has dealt with so far
Attempted(w) == {chunks[w][j] : j \in 1..pos[w]}

FrameEvents == SelectSeq(emitted, LAMBDA e : e.kind = "frame")

\* C1: a successful perform_ocr or perform_ocr_core returns results sorted
\* strictly ascending by frame_index (hence no index twice), every index being
\* one of the input's, whatever the chunking, the interleaving of the workers
\* and the frames that failed.
C1_SortedNoDuplicates ==
    (Returned /\ result.ok) =>
        /\ StrictlyAscending(result.results)
        /\ FrameIndices(result.results) \subseteq InputIndices

C1_Witness ==
    /\ Returned /\ result.ok
    /\ Len(chunks) >= 2
    /\ failed_frames # {}
    /\ Len(result.results) >= 2

\* C2 as claimed: once a worker observed cancellation the call returns
\* Err("OCR cancelled") and nothing else.
C2_Original ==
    (Returned /\ cancel_seen # {}) =>
        (~result.ok /\ result.err = ErrCancelled)

\* C2 amended: once a worker observed cancellation the call returns an Err and
\* no results; the error is "OCR cancelled" unless another worker's engine
\* construction failed, whose error is returned when it was saved first.
C2_CancelFailsCall ==
    (Returned /\ cancel_seen # {}) =>
        /\ ~result.ok
        /\ result.results = <<>>
        /\ result.err \in {ErrCancelled} \cup EngineErrors
        /\ (result.err # ErrCancelled) => engine_failed # {}

C2_Witness ==
    /\ Returned /\ cancel_seen # {}
    /\ result.err = ErrCancelled
    /\ \E w \in Workers : wpc[w] = "done" /\ worker_results[w] # <<>>

\* C3: a frame whose load or recognition fails yields no result, still
\* advances the progress counter once, and does not stop the chunk or the
\* batch: with no Err saved the call returns Ok with exactly the frames that
\* did not fail.
C3_FailedFrameSkipped ==
    /\ \A w \in Workers :
          /\ FrameIndices(worker_results[w]) = Attempted(w) \ failed_frames
          /\ Len(worker_results[w]) = Cardinality(Attempted(w) \ failed_frames)
    /\ failed_frames \subseteq UNION {Attempted(w) : w \in Workers}
    /\ (entry = "perform_ocr" /\ PoolRan) =>
          progress_counter = Cardinality(UNION {Attempted(w) : w \in Workers})
    /\ (Returned /\ PoolRan /\ saved_error = NoError) =>
          /\ result.ok
          /\ FrameIndices(result.results) = InputIndices \ failed_frames
          /\ Len(result.results) = total_frames - Cardinality(failed_frames)

C3_Witness ==
    /\ Returned /\ result.ok /\ entry = "perform_ocr"
    /\ failed_frames # {}
    /\ result.results # <<>>
    /\ \E w \in Workers : \E j \in 1..(Len(chunks[w]) - 1) :
          chunks[w][j] \in failed_frames /\ chunks[w][j + 1] \notin failed_frames

C6_Original ==
    (Returned /\ engine_failed # {}) =>
        (~result.ok /\ result.err \in EngineErrors)

\* C6 amended: a failed engine construction makes the call return an Err and
\* no results, also when other workers finished their chunks; the error is an
\* engine error unless another worker observed cancellation and its error was
\* saved first; the worker whose construction failed constructs no engine.
C6_EngineFailureFailsCall ==
    /\ engine_failed \cap engines = {}
    /\ \A w \in engine_failed : wpc[w] = "failed" /\ pos[w] = 0
    /\ (Returned /\ engine_failed # {}) =>
          /\ ~result.ok
          /\ result.results = <<>>
          /\ result.err \in EngineErrors \cup {ErrCancelled}
          /\ (result.err = ErrCancelled) => cancel_seen # {}

C6_Witness ==
    /\ Returned /\ engine_failed # {}
    /\ result.err \in EngineErrors
    /\ \E w \in Workers :
          wpc[w] = "done" /\ Len(worker_results[w]) = Len(chunks[w])

\* C7 as claimed: a successful call returns one result for every input frame.
C7_Original ==
    (Returned /\ result.ok) =>
        /\ Len(result.results) = total_frames
        /\ FrameIndices(result.results) = InputIndices

\* C7 amended: a successful call returns exactly one result for every input
\* frame whose load and recognition succeeded and none for a frame that failed.
C7_OneResultPerGoodFrame ==
    (Returned /\ result.ok) =>
        \A i \in InputIndices :
            Occurrences(result.results, i) = IF i \in failed_frames THEN 0 ELSE 1

C7_Witness ==
    /\ Returned /\ result.ok
    /\ failed_frames # {}
    /\ Len(result.results) = total_frames - 1
    /\ total_frames >= 3

\* C8 as claimed: the frame list is split into exactly worker_count chunks.
C8_Original ==
    PoolRan => Len(chunks) = WorkerCount(num_workers)

\* C8 amended: with chunk_size = ceil(total / worker_count), the frame list is
\* split into ceil(total / chunk_size) chunks, which is at least 1, at most
\* worker_count, and worker_count when total is a multiple of worker_count;
\* one worker runs per chunk.
C8_ChunkCount ==
    PoolRan =>
        /\ total_frames >= 1
        /\ Len(chunks) = DivCeil(total_frames,
                                 DivCeil(total_frames, WorkerCount(num_workers)))
        /\ Len(chunks) >= 1
        /\ Len(chunks) <= WorkerCount(num_workers)
        /\ (total_frames % WorkerCount(num_workers) = 0) =>
              Len(chunks) = WorkerCount(num_workers)
        /\ Workers = 1..Len(chunks)
        /\ SumLen(chunks) = total_frames

C8_Witness ==
    /\ PoolRan
    /\ total_frames = 3 /\ num_workers = 2 /\ Len(chunks) = 2
    /\ \A w \in Workers : wpc[w] = "done"

\* C9 as claimed: a call that finds zero frames is rejected with an error.
C9_Original ==
    (Returned /\ frames_listed /\ total_frames = 0) => ~result.ok

\* C9 amended: a call that finds zero frames returns Ok with an empty list at
\* once: no worker and no engine was created and no progress was reported.
C9_ZeroFramesEmptyOk ==
    (Returned /\ frames_listed /\ total_frames = 0) =>
        /\ result.ok
        /\ result.results = <<>>
        /\ Workers = {}
        /\ engines = {}
        /\ emitted = <<>>
        /\ progress_counter = 0

C9_Witness ==
    /\ Returned /\ frames_listed /\ total_frames = 0
    /\ entry = "perform_ocr"
    /\ file_id \notin DOMAIN OCR_PROCESS_IDS

\* ------------------------------------------------------------------ C10

\* generate_subtitles_core was called with fps <= 0
GenCalledWithBadFps == gen_pc # "idle" /\ gen_fps <= 0

\* perform_ocr was called with fps <= 0
OcrCalledWithBadFps == entry = "perform_ocr" /\ callPc # "idle" /\ fps <= 0

\* generate_subtitles_core has built no segment and called on_progress never
GenDidNoWork ==
    /\ gen_frames = <<>>
    /\ segments = <<>>
    /\ current = <<>>
    /\ progress_calls = <<>>

\* perform_ocr has registered no job, started no worker and emitted nothing
OcrDidNoWork ==
    /\ OCR_PROCESS_IDS = EmptyMap
    /\ wpc = <<>>
    /\ engines = {}
    /\ emitted = <<>>
    /\ progress_counter = 0

\* C10, as stated: every call with fps <= 0 fails with "FPS must be greater
\* than 0" before any work: generate_subtitles_core builds no segment and calls
\* no progress callback, for an empty frame list too, and perform_ocr makes no
\* registry entry and starts no worker.
C10_Original ==
    /\ GenCalledWithBadFps =>
          /\ gen_pc = "returned"
          /\ gen_result = [ok |-> FALSE, err |-> ErrFps, subtitles |-> <<>>]
          /\ GenDidNoWork
    /\ OcrCalledWithBadFps =>
          /\ callPc = "returned"
          /\ result = [ok |-> FALSE, err |-> ErrFps, results |-> <<>>]
          /\ OcrDidNoWork

\* C10: a call with fps <= 0 fails before any work.  generate_subtitles_core
\* fails with "FPS must be greater than 0", having built no segment and called
\* no progress callback, for an empty frame list too.  perform_ocr fails having
\* made no registry entry and started no worker; its error is "FPS must be
\* greater than 0" when frames_dir is a directory, and the error of the
\* directory validation, which runs first, when it is not.
C10_FpsRejectedBeforeWork ==
    /\ GenCalledWithBadFps =>
          /\ gen_pc = "returned"
          /\ gen_result = [ok |-> FALSE, err |-> ErrFps, subtitles |-> <<>>]
          /\ GenDidNoWork
    /\ OcrCalledWithBadFps =>
          /\ callPc = "returned"
          /\ ~result.ok
          /\ result.results = <<>>
          /\ frames_dir = "directory" => result.err = ErrFps
          /\ frames_dir = "missing" => result.err = ErrDirectory
          /\ frames_dir = "file" => result.err = ErrNotDirectory
          /\ OcrDidNoWork

\* perform_ocr, given a directory and fps <= 0, returned the FPS error
C10_Witness ==
    /\ OcrCalledWithBadFps
    /\ frames_dir = "directory"
    /\ callPc = "returned"
    /\ result.err = ErrFps

\* generate_subtitles_core, given no frames and fps <= 0, returned the FPS error
C10_WitnessEmptyFrameList ==
    /\ GenCalledWithBadFps
    /\ gen_total = 0
    /\ gen_pc = "returned"
    /\ gen_result.err = ErrFps

\* ------------------------------------------------------------------ C11

\* generate_subtitles_core returned Ok
GenReturnedOk == gen_pc = "returned" /\ gen_result.ok

\* the cues generate_subtitles_core returned
Returned_Cues == gen_result.subtitles

\* C11: every cue returned by generate_subtitles_core ends after it starts,
\* whatever the frames, the fps > 0 and the options: single-frame segments,
\* segments whose computed end does not exceed their start, merged cues.
C11_EndAfterStart ==
    GenReturnedOk =>
        \A i \in 1..Len(Returned_Cues) :
            Returned_Cues[i].end_time > Returned_Cues[i].start_time

\* a cue was returned for a segment whose computed end did not exceed its start
C11_Witness ==
    /\ GenReturnedOk
    /\ \E k \in 1..Len(segments) :
          /\ FrameEndTimeMs(segments[k].last_seen_frame_index, gen_fps) <= segments[k].start_time
          /\ \E i \in 1..Len(Returned_Cues) :
                /\ Returned_Cues[i].start_time = segments[k].start_time
                /\ Returned_Cues[i].end_time = segments[k].start_time + 1

\* a returned cue is the merge of two cues
C11_WitnessMerged ==
    /\ GenReturnedOk
    /\ \E j \in 1..Len(merge_log) : merge_log[j].absorbed

\* ------------------------------------------------------------------ C12

\* C12, as stated: the cues returned by generate_subtitles_core are numbered
\* densely in output order, the i-th cue having id "sub-i", for every
\* combination of filter_url_like and merge_similar and every number of
\* surviving cues.
C12_Original ==
    GenReturnedOk =>
        \A i \in 1..Len(Returned_Cues) : Returned_Cues[i].id = <<"sub-", i>>

\* what the code does: the ids are dense when the merge pass ran; when it did
\* not run, each cue keeps the number it was given before the URL filter
C12_DenseWhenMergeRan ==
    GenReturnedOk =>
        IF gen_cleanup.merge_similar /\ Len(filtered) > 1
        THEN \A i \in 1..Len(Returned_Cues) : Returned_Cues[i].id = <<"sub-", i>>
        ELSE /\ Returned_Cues = filtered
             /\ \A i \in 1..Len(Returned_Cues) :
                   \E k \in i..Len(cues) : Returned_Cues[i] = cues[k] /\ cues[k].id = <<"sub-", k>>

\* the URL filter dropped the first cue, the merge pass did not run, and the
\* one cue returned is not numbered 1
C12_Witness ==
    /\ GenReturnedOk
    /\ Len(cues) = 2
    /\ Len(Returned_Cues) = 1
    /\ Returned_Cues[1].id = <<"sub-", 2>>

\* ------------------------------------------------------------------ C13

\* text, times and confidence of the cues, without their ids
CueContents(subs) ==
    [i \in 1..Len(subs) |->
        [text |-> subs[i].text, start_time |-> subs[i].start_time,
         end_time |-> subs[i].end_time, confidence |-> subs[i].confidence]]

\* a run of the URL filter and the merge pass on `subs`
PostProcessAgain(subs, cleanup) == MergeAdjacent(RetainNotUrlLike(subs, cleanup), cleanup)

\* C13, as stated: running the URL filter and the adjacency merge a second
\* time, with the same options, on the cue list they produced is a no-op: no
\* further cue is merged or dropped and no text, time or confidence changes.
C13_Original ==
    GenReturnedOk =>
        CueContents(PostProcessAgain(Returned_Cues, gen_cleanup)) = CueContents(Returned_Cues)

\* what holds of a second run: it drops no cue for its text, and it changes
\* nothing when the first run absorbed no cue or left a single cue
C13_SecondRunBounds ==
    GenReturnedOk =>
        /\ RetainNotUrlLike(Returned_Cues, gen_cleanup) = Returned_Cues
        /\ Len(PostProcessAgain(Returned_Cues, gen_cleanup)) <= Len(Returned_Cues)
        /\ (Len(Returned_Cues) <= 1 \/ \A j \in 1..Len(merge_log) : ~merge_log[j].absorbed)
              => CueContents(PostProcessAgain(Returned_Cues, gen_cleanup))
                    = CueContents(Returned_Cues)

\* the first run absorbed a cue and returned two cues, which a second run merges
C13_Witness ==
    /\ GenReturnedOk
    /\ \E j \in 1..Len(merge_log) : merge_log[j].absorbed
    /\ Len(Returned_Cues) = 2
    /\ Len(PostProcessAgain(Returned_Cues, gen_cleanup)) = 1

\* ------------------------------------------------------------------ C14

\* the input is n >= 1 consecutive frames, stamped round(frame_index * 1000 / fps),
\* that carry one text with a confidence of at least min_confidence, and
\* merge_similar is on
SameTextRun ==
    /\ gen_cleanup.merge_similar
    /\ gen_total >= 1
    /\ Len(gen_frames) = gen_total
    /\ \A i \in 1..gen_total :
          /\ gen_frames[i].frame_index = gen_frames[1].frame_index + (i - 1)
          /\ gen_frames[i].time_ms = RoundDiv(gen_frames[i].frame_index * 1000, gen_fps)
          /\ gen_frames[i].text = gen_frames[1].text
          /\ gen_frames[i].confidence >= gen_min_confidence

\* round((last frame's index + 1) * 1000 / fps)
RunEndTime == RoundDiv((gen_frames[gen_total].frame_index + 1) * 1000, gen_fps)

\* C14, as stated: with merge_similar on, n >= 1 consecutive frames that carry
\* the same text with confidence >= min_confidence yield exactly one cue, from
\* the first frame's time_ms to the end time of the last frame.
C14_Original ==
    (GenReturnedOk /\ SameTextRun) =>
        /\ Len(Returned_Cues) = 1
        /\ Returned_Cues[1].start_time = gen_frames[1].time_ms
        /\ Returned_Cues[1].end_time = RunEndTime

\* C14: such a run yields exactly one cue when the text has a non-empty
\* normalized key and is not dropped by the URL filter, and no cue otherwise;
\* the cue starts at the first frame's time_ms and ends at the end time of the
\* last frame, or one millisecond after its start when that end time does not
\* exceed the start.
C14_SameTextRunOneCue ==
    (GenReturnedOk /\ SameTextRun) =>
        LET text == gen_frames[1].text
            kept == /\ NormalizeTextForCompare(CollapseWhitespace(text)) # <<>>
                    /\ ~(gen_cleanup.filter_url_like /\ TextLooksUrlLike(CollapseWhitespace(text)))
        IN  IF kept
            THEN /\ Len(Returned_Cues) = 1
                 /\ Returned_Cues[1].start_time = gen_frames[1].time_ms
                 /\ Returned_Cues[1].end_time =
                       IF RunEndTime > gen_frames[1].time_ms THEN RunEndTime
                       ELSE gen_frames[1].time_ms + 1
                 /\ Returned_Cues[1].text = CollapseWhitespace(text)
            ELSE Returned_Cues = <<>>

\* three frames of one text, further apart than max_gap_ms, were built into
\* three cues and returned as one
C14_Witness ==
    /\ GenReturnedOk
    /\ SameTextRun
    /\ gen_total = 3
    /\ gen_frames[2].time_ms - gen_frames[1].time_ms > gen_cleanup.max_gap_ms
    /\ Len(cues) = 3
    /\ Len(Returned_Cues) = 1

\* three frames of one text were joined by the loop over the frames
C14_WitnessOneSegment ==
    /\ GenReturnedOk
    /\ SameTextRun
    /\ gen_total = 3
    /\ Len(cues) = 1
    /\ Len(Returned_Cues) = 1

\* ------------------------------------------------------------------ C15

\* the positions in `cues` of the cues whose text is not URL-like
NotUrlLikePositions == {k \in 1..Len(cues) : ~TextLooksUrlLike(cues[k].text)}

\* C15: with filter_url_like on no returned cue has URL-like text, also after
\* merging, and the filter passes exactly the cues that are not URL-like, in
\* their order; with filter_url_like off the filter drops no cue.
C15_UrlFilter ==
    GenReturnedOk =>
        IF gen_cleanup.filter_url_like
        THEN /\ \A i \in 1..Len(Returned_Cues) : ~TextLooksUrlLike(Returned_Cues[i].text)
             /\ Len(filtered) = Cardinality(NotUrlLikePositions)
             /\ \A i \in 1..Len(filtered) :
                   \E k \in NotUrlLikePositions :
                      /\ filtered[i] = cues[k]
                      /\ Cardinality({j \in NotUrlLikePositions : j < k}) = i - 1
        ELSE filtered = cues

\* the filter dropped a cue between two cues it kept, and the merge pass
\* then absorbed a cue
C15_Witness ==
    /\ GenReturnedOk
    /\ gen_cleanup.filter_url_like
    /\ Len(cues) = 3
    /\ TextLooksUrlLike(cues[2].text)
    /\ Len(filtered) = 2
    /\ \E j \in 1..Len(merge_log) : merge_log[j].absorbed

\* with the filter off a cue with URL-like text was returned
C15_WitnessFilterOff ==
    /\ GenReturnedOk
    /\ ~gen_cleanup.filter_url_like
    /\ \E i \in 1..Len(Returned_Cues) : TextLooksUrlLike(Returned_Cues[i].text)

\* ------------------------------------------------------------------ C16

\* the duration of a cue
CueDuration(cue) == IF cue.end_time > cue.start_time THEN cue.end_time - cue.start_time ELSE 0

\* the stated test of a cue against a kept cue
StatedMergeTest(kept, cue) ==
    LET gap == IF cue.start_time > kept.end_time THEN cue.start_time - kept.end_time ELSE 0
        kept_key == NormalizeTextForCompare(kept.text)
        cue_key == NormalizeTextForCompare(cue.text)
    IN  /\ gap <= gen_cleanup.max_gap_ms
        /\ \/ TextsAreSimilar(kept_key, cue_key, SimilarityThreshold(gen_cleanup))
           \/ /\ \/ CueDuration(kept) < gen_cleanup.min_cue_duration_ms
                 \/ CueDuration(cue) < gen_cleanup.min_cue_duration_ms
              /\ TextsAreSimilar(kept_key, cue_key, 80)

\* the position in the scanned list of the cue that is the last kept cue when
\* the cue at position j is tested
KeptPosition(j) == CHOOSE k \in 1..(j - 1) :
                      /\ ~merge_log[k].absorbed
                      /\ \A m \in (k + 1)..(j - 1) : merge_log[m].absorbed

\* C16: in the merge scan a cue is absorbed into the last kept cue iff the gap
\* (floored at 0) is <= max_gap_ms and the texts are similar at the strict
\* threshold, or one of the two cues is shorter than min_cue_duration_ms and
\* the texts are similar at 0.80; otherwise it becomes the last kept cue. The
\* kept cue is tested as already changed by earlier merges.
C16_AbsorbedIff ==
    (GenReturnedOk /\ merge_log # <<>>) =>
        /\ Len(merge_log) = Len(filtered)
        /\ \A j \in 1..Len(merge_log) : merge_log[j].sub = filtered[j]
        /\ merge_log[1].kept = <<>> /\ ~merge_log[1].absorbed
        /\ \A j \in 2..Len(merge_log) :
              LET before == merge_log[j - 1]
              IN  /\ merge_log[j].kept =
                        IF before.absorbed
                        THEN <<Absorb(before.kept[1], before.sub)>>
                        ELSE <<before.sub>>
                  /\ merge_log[j].absorbed <=>
                        StatedMergeTest(merge_log[j].kept[1], merge_log[j].sub)
        /\ Len(subtitles) = Cardinality({j \in 1..Len(merge_log) : ~merge_log[j].absorbed})

\* a cue absorbed by the relaxed test alone: within the gap, not similar at
\* the strict threshold, one of the two cues short, similar at 0.80
C16_Witness ==
    /\ GenReturnedOk
    /\ \E j \in 2..Len(merge_log) :
          LET kept == merge_log[j].kept[1]
              cue == merge_log[j].sub
          IN  /\ merge_log[j].absorbed
              /\ ~TextsAreSimilar(NormalizeTextForCompare(kept.text),
                                  NormalizeTextForCompare(cue.text),
                                  SimilarityThreshold(gen_cleanup))

\* a cue within the gap of a similar cue two places back is not absorbed,
\* the last kept cue being a different one
C16_WitnessNoLookBack ==
    /\ GenReturnedOk
    /\ Len(merge_log) = 3
    /\ ~merge_log[2].absorbed
    /\ ~merge_log[3].absorbed
    /\ StatedMergeTest(filtered[1], filtered[3])

\* a cue absorbed because an earlier merge moved the kept cue's end_time: the
\* test fails against the kept cue as it was built
C16_WitnessChangedKept ==
    /\ GenReturnedOk
    /\ \E j \in 3..Len(merge_log) :
          /\ merge_log[j].absorbed
          /\ merge_log[j - 1].absorbed
          /\ ~StatedMergeTest(filtered[KeptPosition(j)], filtered[j])

\* a cue outside the gap is not absorbed although the texts are equal
C16_WitnessGap ==
    /\ GenReturnedOk
    /\ \E j \in 2..Len(merge_log) :
          /\ ~merge_log[j].absorbed
          /\ merge_log[j].kept[1].text = merge_log[j].sub.text

\* ------------------------------------------------------------------ C17

\* the kept cue after the test of position j
KeptAfter(j) ==
    IF j < Len(merge_log) THEN merge_log[j + 1].kept[1] ELSE subtitles[Len(subtitles)]

\* the position in the output of the cue kept at position j of the scan
OutputPosition(j) == Cardinality({k \in 1..j : ~merge_log[k].absorbed})

\* the text of `a` has strictly more characters than the text of `b`
MoreCharacters(a, b) == Len(a.text) > Len(b.text)

\* the text of `a` has strictly more UTF-8 bytes than the text of `b`
MoreBytes(a, b) == ByteLen(a.text) > ByteLen(b.text)

\* the effects of the merge scan, for a given reading of "strictly longer text"
AbsorptionEffects(Longer(_, _)) ==
    /\ \A j \in 2..Len(merge_log) :
          merge_log[j].absorbed =>
             LET kept == merge_log[j].kept[1]
                 cue == merge_log[j].sub
                 after == KeptAfter(j)
             IN  /\ after.end_time = Max(kept.end_time, cue.end_time)
                 /\ after.confidence = Max(kept.confidence, cue.confidence)
                 /\ after.start_time = kept.start_time
                 /\ after.text \in {kept.text, cue.text}
                 /\ after.text # kept.text =>
                       \/ cue.confidence > kept.confidence
                       \/ cue.confidence = kept.confidence /\ Longer(cue, kept)
    /\ Len(subtitles) = Cardinality({j \in 1..Len(merge_log) : ~merge_log[j].absorbed})
    /\ \A j \in 1..Len(merge_log) :
          (/\ ~merge_log[j].absorbed
           /\ j < Len(merge_log) => ~merge_log[j + 1].absorbed) =>
             LET out == subtitles[OutputPosition(j)]
                 cue == merge_log[j].sub
             IN  /\ out.text = cue.text
                 /\ out.start_time = cue.start_time
                 /\ out.end_time = cue.end_time
                 /\ out.confidence = cue.confidence

\* C17, as stated: an absorption sets the kept cue's end_time and confidence
\* to the maxima, leaves its start_time, and replaces its text only if the
\* absorbed cue has strictly higher confidence, or equal confidence and
\* strictly longer text; the absorbed cue is not in the output and cues not
\* involved in a merge keep text, times and confidence.
C17_Original ==
    GenReturnedOk =>
        IF merge_log = <<>>
        THEN subtitles = filtered
        ELSE AbsorptionEffects(MoreCharacters)

\* the same with the length of a text taken in UTF-8 bytes, and the text
\* replaced whenever the condition holds
C17_LengthInBytes ==
    GenReturnedOk =>
        IF merge_log = <<>>
        THEN subtitles = filtered
        ELSE /\ AbsorptionEffects(MoreBytes)
             /\ \A j \in 2..Len(merge_log) :
                   LET kept == merge_log[j].kept[1]
                       cue == merge_log[j].sub
                   IN  (/\ merge_log[j].absorbed
                        /\ \/ cue.confidence > kept.confidence
                           \/ cue.confidence = kept.confidence /\ MoreBytes(cue, kept))
                          => KeptAfter(j).text = cue.text

\* an absorbed cue of equal confidence and fewer characters, but more bytes,
\* gave its text to the kept cue
C17_Witness ==
    /\ GenReturnedOk
    /\ \E j \in 2..Len(merge_log) :
          LET kept == merge_log[j].kept[1]
              cue == merge_log[j].sub
          IN  /\ merge_log[j].absorbed
              /\ cue.confidence = kept.confidence
              /\ Len(cue.text) < Len(kept.text)
              /\ KeptAfter(j).text = cue.text
              /\ KeptAfter(j).text # kept.text

\* an absorbed cue of higher confidence gave its text to the kept cue while
\* another cue of the output took part in no merge
C17_WitnessHigherConfidence ==
    /\ GenReturnedOk
    /\ Len(merge_log) = 3
    /\ Len(subtitles) = 2
    /\ \E j \in 2..3 :
          /\ merge_log[j].absorbed
          /\ merge_log[j].sub.confidence > merge_log[j].kept[1].confidence
          /\ KeptAfter(j).text = merge_log[j].sub.text

\* ------------------------------------------------------------------ C18

\* the frames of the input with a confidence of at least `minimum` and a
\* normalized text that is not empty
FramesValidAt(minimum) ==
    {i \in 1..Len(gen_frames) :
        /\ gen_frames[i].confidence >= minimum
        /\ NormalizeTextForCompare(CollapseWhitespace(gen_frames[i].text)) # <<>>}

\* the result of a call with fps > 0, the valid frames being `valid`
EmptyIffNoneOf(valid) ==
    (gen_pc = "returned" /\ gen_fps > 0) =>
        /\ gen_result.ok
        /\ Len(gen_frames) = gen_total
        /\ valid = {} => Returned_Cues = <<>>
        /\ (valid # {} /\ ~gen_cleanup.filter_url_like) => Len(Returned_Cues) >= 1

\* C18, as stated: with fps > 0 generate_subtitles_core returns Ok; the cue
\* list is empty when the input is empty or every frame has a confidence
\* below min_confidence or an empty normalized text, and with filter_url_like
\* off it holds at least one cue when a frame is valid.
C18_Original == EmptyIffNoneOf(FramesValidAt(gen_min_confidence))

\* C18, amended: the same with a frame's confidence compared to
\* min_confidence clamped into [0, 1].
C18_EmptyIffNoValidFrame == EmptyIffNoneOf(FramesValidAt(Max(0, Min(100, gen_min_confidence))))

\* an input whose frames are all invalid, one by its confidence and one by
\* its empty normalized text, gave Ok with no cue
C18_Witness ==
    /\ GenReturnedOk
    /\ gen_min_confidence = 50
    /\ \E i \in 1..Len(gen_frames) : gen_frames[i].confidence < gen_min_confidence
    /\ \E i \in 1..Len(gen_frames) :
          /\ gen_frames[i].confidence >= gen_min_confidence
          /\ NormalizeTextForCompare(CollapseWhitespace(gen_frames[i].text)) = <<>>
    /\ FramesValidAt(gen_min_confidence) = {}
    /\ Returned_Cues = <<>>

\* the empty input gave Ok with no cue
C18_WitnessEmptyInput ==
    /\ GenReturnedOk
    /\ gen_total = 0
    /\ Returned_Cues = <<>>

\* with the filter off, one valid frame among invalid ones gave a cue
C18_WitnessOneValidFrame ==
    /\ GenReturnedOk
    /\ ~gen_cleanup.filter_url_like
    /\ gen_min_confidence = 50
    /\ Cardinality(FramesValidAt(gen_min_confidence)) = 1
    /\ Len(gen_frames) = MaxGenFrames
    /\ Len(Returned_Cues) = 1

\* with the filter on, an input with a valid frame gave no cue
C18_WitnessFilterOn ==
    /\ GenReturnedOk
    /\ gen_cleanup.filter_url_like
    /\ FramesValidAt(Max(0, Min(100, gen_min_confidence))) # {}
    /\ Returned_Cues = <<>>

\* a frame of confidence 1.0 gave a cue under a min_confidence above 1.0
C18_WitnessAboveRange ==
    /\ GenReturnedOk
    /\ gen_min_confidence > 100
    /\ \A i \in 1..Len(gen_frames) : gen_frames[i].confidence < gen_min_confidence
    /\ Len(Returned_Cues) >= 1

\* ------------------------------------------------------------------ C19

\* the configured similarity_threshold brought into [0.80, 0.98]
ConfiguredThresholdInRange ==
    IF gen_cleanup.similarity_threshold < 80 THEN 80
    ELSE IF gen_cleanup.similarity_threshold > 98 THEN 98
    ELSE gen_cleanup.similarity_threshold

\* C19: with merge_similar on, the threshold given to texts_are_similar by the
\* fold and by the strict merge test is the configured value clamped into
\* [0.80, 0.98], and the call behaves as one configured with the clamped
\* value; with merge_similar off a segment holds frames of one normalized key
\* only, no threshold is used, the merge scan does not run and the cues
\* returned are the cues that passed the filter.
C19_ThresholdClamped ==
    gen_pc # "idle" =>
        IF gen_cleanup.merge_similar
        THEN /\ strict_thresholds \subseteq {ConfiguredThresholdInRange}
             /\ GenReturnedOk =>
                   Returned_Cues =
                      MergeAdjacent(filtered, [gen_cleanup EXCEPT
                                                 !.similarity_threshold = ConfiguredThresholdInRange])
        ELSE /\ strict_thresholds = {}
             /\ merge_log = <<>>
             /\ \A k \in 1..Len(segments) :
                   \A c \in 1..Len(segments[k].candidates) :
                      segments[k].candidates[c].key = segments[k].candidates[1].key
             /\ \A k \in 1..Len(current) :
                   \A c \in 1..Len(current[k].candidates) :
                      current[k].candidates[c].key = current[k].candidates[1].key
             /\ GenReturnedOk =>
                   /\ Returned_Cues = filtered
                   /\ Len(cues) = Len(segments)

\* under a configured threshold below 0.80, and under one above 0.98, both the
\* fold and the merge scan compared texts, at 0.80 and at 0.98
C19_Witness ==
    /\ GenReturnedOk
    /\ gen_cleanup.merge_similar
    /\ gen_cleanup.similarity_threshold \notin 80..98
    /\ merge_log # <<>>
    /\ \E k \in 1..Len(segments) : Len(segments[k].candidates) > 1
    /\ strict_thresholds = {ConfiguredThresholdInRange}

\* the same under a configured threshold above 0.98
C19_WitnessAboveRange ==
    /\ C19_Witness
    /\ gen_cleanup.similarity_threshold > 98
    /\ strict_thresholds = {98}

\* the same under a configured threshold below 0.80
C19_WitnessBelowRange ==
    /\ C19_Witness
    /\ gen_cleanup.similarity_threshold < 80
    /\ strict_thresholds = {80}

\* with merge_similar off, two frames of one key were joined in a segment
\* while adjacent cues whose keys differ in one character were both returned
C19_WitnessMergeOff ==
    /\ GenReturnedOk
    /\ ~gen_cleanup.merge_similar
    /\ \E k \in 1..Len(segments) :
          /\ Len(segments[k].candidates) = 2
          /\ segments[k].candidates[1].text # segments[k].candidates[2].text
    /\ \E i \in 1..(Len(Returned_Cues) - 1) :
          /\ Returned_Cues[i + 1].start_time = Returned_Cues[i].end_time
          /\ TextsAreSimilar(NormalizeTextForCompare(Returned_Cues[i].text),
                             NormalizeTextForCompare(Returned_Cues[i + 1].text), 80)

\* ------------------------------------------------------------------ C20

\* texts_are_similar has returned for two keys the shorter of which has fewer
\* than 6 characters
ShortKeysCompared ==
    /\ fn_name = "texts_are_similar"
    /\ fn_out # <<>>
    /\ (Len(fn_args[1]) < 6 \/ Len(fn_args[2]) < 6)

\* the positions at which the two keys, of one length, differ
DifferingPositions == {i \in 1..Len(fn_args[1]) : fn_args[1][i] # fn_args[2][i]}

\* C20: for two keys the shorter of which has fewer than 6 characters,
\* texts_are_similar is true exactly when the keys are equal, or have the same
\* length and differ in exactly one position, whatever the threshold; keys of
\* unequal length are never similar.
C20_ShortKeysOneSubstitution ==
    ShortKeysCompared =>
        /\ fn_out[1] <=>
              \/ fn_args[1] = fn_args[2]
              \/ /\ Len(fn_args[1]) = Len(fn_args[2])
                 /\ Cardinality(DifferingPositions) = 1
        /\ Len(fn_args[1]) # Len(fn_args[2]) => ~fn_out[1]

\* two keys of two three-byte characters that differ in one position are
\* similar at threshold 1.0
C20_Witness ==
    /\ ShortKeysCompared
    /\ fn_args[3] = 100
    /\ Len(fn_args[1]) = 2
    /\ ByteLen(fn_args[1]) = 6
    /\ Len(fn_args[2]) = 2
    /\ Cardinality(DifferingPositions) = 1
    /\ fn_out[1]

\* a key and the same key with one more character are not similar at threshold 0
C20_WitnessInsertion ==
    /\ ShortKeysCompared
    /\ fn_args[3] = 0
    /\ Len(fn_args[2]) = Len(fn_args[1]) + 1
    /\ SubSeq(fn_args[2], 1, Len(fn_args[1])) = fn_args[1]
    /\ Len(fn_args[1]) >= 1
    /\ ~fn_out[1]

\* two keys of 5 characters that differ in two positions are not similar at
\* threshold 0
C20_WitnessTwoDifferences ==
    /\ ShortKeysCompared
    /\ fn_args[3] = 0
    /\ Len(fn_args[1]) = 5
    /\ Len(fn_args[2]) = 5
    /\ Cardinality(DifferingPositions) = 2
    /\ ~fn_out[1]

\* ------------------------------------------------------------------ C21

RECURSIVE EditRow(_, _, _, _)
\* the row of edit distances from a prefix of `a` extended by `ch` to every
\* prefix of `b`, from the row `above` of the prefix itself
EditRow(above, ch, b, row) ==
    IF Len(row) > Len(b) THEN row
    ELSE LET j == Len(row)
             change == above[j] + (IF ch = b[j] THEN 0 ELSE 1)
             least == Min(Min(row[j] + 1, above[j + 1] + 1), change)
         IN  EditRow(above, ch, b, Append(row, least))

RECURSIVE EditRows(_, _, _, _)
EditRows(a, b, i, above) ==
    IF i > Len(a) THEN above
    ELSE EditRows(a, b, i + 1, EditRow(above, a[i], b, <<i>>))

\* the edit distance of a and b: the least number of insertions, deletions
\* and substitutions of one character that turn a into b
EditDistance(a, b) == EditRows(a, b, 1, [j \in 1..(Len(b) + 1) |-> j - 1])[Len(b) + 1]

\* ceil(n / 100) for an integer n of either sign
CeilHundredths(n) == -((-n) \div 100)

\* texts_are_similar has returned for two different keys of at least 6
\* characters each
LongKeysCompared ==
    /\ fn_name = "texts_are_similar"
    /\ fn_out # <<>>
    /\ fn_args[1] # fn_args[2]
    /\ Len(fn_args[1]) >= 6
    /\ Len(fn_args[2]) >= 6

\* C21: for two different keys of at least 6 characters each,
\* texts_are_similar(a, b, threshold) is true exactly when the edit distance d
\* satisfies d <= ceil((1 - threshold) * max_len) and 1 - d / max_len >=
\* threshold; when that bound is 0 the keys are not similar.
C21_LongKeysWithinDistance ==
    LongKeysCompared =>
        LET a == fn_args[1]
            b == fn_args[2]
            threshold == fn_args[3]
            max_len == Max(Len(a), Len(b))
            d == EditDistance(a, b)
            bound == CeilHundredths((100 - threshold) * max_len)
        IN  /\ fn_out[1] <=> (d <= bound /\ (max_len - d) * 100 >= threshold * max_len)
            /\ bound = 0 => ~fn_out[1]

\* keys of 6 and 7 characters one insertion apart are similar at 0.80 (the
\* bound is 2, the similarity 6/7)
C21_Witness ==
    /\ LongKeysCompared
    /\ fn_args[3] = 80
    /\ Len(fn_args[1]) = 6
    /\ Len(fn_args[2]) = 7
    /\ EditDistance(fn_args[1], fn_args[2]) = 1
    /\ fn_out[1]

\* keys within the bound whose similarity is below the threshold are not
\* similar: 7 characters, distance 2, threshold 0.80
C21_WitnessBelowThreshold ==
    /\ LongKeysCompared
    /\ fn_args[3] = 80
    /\ Len(fn_args[1]) = 7
    /\ Len(fn_args[2]) = 7
    /\ EditDistance(fn_args[1], fn_args[2]) = 2
    /\ ~fn_out[1]

\* at threshold 1 keys one substitution apart are not similar
C21_WitnessThresholdOne ==
    /\ LongKeysCompared
    /\ fn_args[3] = 100
    /\ EditDistance(fn_args[1], fn_args[2]) = 1
    /\ ~fn_out[1]

\* keys of one length whose edit distance is less than the number of
\* positions at which they differ are similar at 0.50
C21_WitnessShifted ==
    /\ LongKeysCompared
    /\ fn_args[3] = 50
    /\ Len(fn_args[1]) = Len(fn_args[2])
    /\ EditDistance(fn_args[1], fn_args[2]) < Cardinality(DifferingPositions)
    /\ fn_out[1]

\* ------------------------------------------------------------------ C22

\* normalize_text_for_compare has returned
Normalized == fn_name = "normalize_text_for_compare" /\ fn_out # <<>>

\* the characters is_edge_punctuation accepts, among those of the texts
EdgeCharacters == {" ", "\t", "!", "FW_STOP"}

\* the text without its whitespace characters
WithoutWhitespace(text) == SelectSeq(text, LAMBDA c : c \notin {" ", "\t"})

\* the text from its first to its last character that is not an edge character
Interior(text) ==
    LET inner == {i \in 1..Len(text) : text[i] \notin EdgeCharacters}
    IN  IF inner = {} THEN <<>>
        ELSE SubSeq(text, CHOOSE i \in inner : \A k \in inner : i <= k,
                          CHOOSE i \in inner : \A k \in inner : i >= k)

\* C22: normalize_text_for_compare is idempotent; its result has no leading
\* or trailing whitespace or edge punctuation and no two whitespace characters
\* in a row, keeps the punctuation inside the text, and is empty for a text
\* of whitespace and edge punctuation only.
C22_NormalizeIdempotent ==
    Normalized =>
        LET x == fn_args[1]
            out == fn_out[1]
        IN  /\ Len(fn_out) = 2 => fn_out[2] = out
            /\ out # <<>> => (out[1] \notin EdgeCharacters /\ out[Len(out)] \notin EdgeCharacters)
            /\ \A i \in 1..(Len(out) - 1) :
                  ~(out[i] \in {" ", "\t"} /\ out[i + 1] \in {" ", "\t"})
            /\ \A i \in 1..Len(out) : out[i] # "A" /\ out[i] # "\t"
            /\ WithoutWhitespace(out) =
                  [i \in 1..Len(WithoutWhitespace(Interior(x))) |->
                      IF WithoutWhitespace(Interior(x))[i] = "A" THEN "a"
                      ELSE WithoutWhitespace(Interior(x))[i]]
            /\ (\A i \in 1..Len(x) : x[i] \in EdgeCharacters) => out = <<>>

\* a text with an upper-case letter, a run of whitespace and punctuation
\* inside was normalized, to a different text, and normalized again
C22_Witness ==
    /\ Normalized
    /\ Len(fn_out) = 2
    /\ \E i \in 1..Len(fn_args[1]) : fn_args[1][i] = "A"
    /\ \E i \in 1..(Len(fn_args[1]) - 1) :
          fn_args[1][i] \in {" ", "\t"} /\ fn_args[1][i + 1] \in {" ", "\t"}
    /\ \E i \in 2..(Len(fn_out[1]) - 1) : fn_out[1][i] \in {"!", "FW_STOP"}
    /\ \E i \in 2..(Len(fn_out[1]) - 1) : fn_out[1][i] = " "

\* a text with punctuation and whitespace at both ends lost them
C22_WitnessEdges ==
    /\ Normalized
    /\ Len(fn_args[1]) = MaxTextLen
    /\ fn_args[1][1] \in {"!", "FW_STOP"}
    /\ fn_args[1][2] \in {" ", "\t"}
    /\ fn_args[1][MaxTextLen] \in {"!", "FW_STOP"}
    /\ Len(fn_out[1]) = 1

\* a text of whitespace and punctuation only gave the empty string
C22_WitnessEmpty ==
    /\ Normalized
    /\ Len(fn_args[1]) = MaxTextLen
    /\ fn_out[1] = <<>>

\* ------------------------------------------------------------------ C23

\* select_segment_text has returned
Selected == fn_name = "select_segment_text" /\ fn_out # <<>>

\* the candidates of the call that have the key `key`
WithKey(key) == {i \in 1..Len(fn_args[1]) : fn_args[1][i].key = key}

\* the highest confidence among the candidates at the positions `at`
HighestConfidence(at) ==
    CHOOSE c \in {fn_args[1][i].confidence : i \in at} :
        \A i \in at : fn_args[1][i].confidence <= c

\* C23: select_segment_text returns the text and confidence of the key whose
\* maximum confidence is the highest, a tie going to the key with more
\* occurrences; the text is one observed at that key's maximum confidence,
\* the confidence is the highest of any candidate, and the result is None
\* only for an empty list.
C23_BestKeySelected ==
    Selected =>
        LET list == fn_args[1]
            picked == fn_out[1]
        IN  /\ picked.some <=> list # <<>>
            /\ picked.some =>
                  /\ picked.confidence = HighestConfidence(1..Len(list))
                  /\ \E i \in 1..Len(list) :
                        LET key == list[i].key
                        IN  /\ list[i].text = picked.text
                            /\ list[i].confidence = HighestConfidence(WithKey(key))
                            /\ picked.confidence = HighestConfidence(WithKey(key))
                            /\ \A j \in 1..Len(list) :
                                  HighestConfidence(WithKey(list[j].key)) = picked.confidence
                                     => Cardinality(WithKey(list[j].key))
                                           <= Cardinality(WithKey(key))

\* two keys tie on their maximum confidence, the key seen twice wins although
\* the other key comes first in the list
C23_Witness ==
    /\ Selected
    /\ Len(fn_args[1]) = 3
    /\ fn_args[1][1].key # fn_args[1][2].key
    /\ fn_args[1][2].key = fn_args[1][3].key
    /\ fn_args[1][1].confidence = 90
    /\ fn_args[1][2].confidence = 90
    /\ fn_args[1][3].confidence = 0
    /\ fn_out[1].text = fn_args[1][2].text

\* the text returned is the one seen at the key's maximum confidence, not the
\* one seen first
C23_WitnessTextAtMaximum ==
    /\ Selected
    /\ Len(fn_args[1]) = 2
    /\ fn_args[1][1].key = fn_args[1][2].key
    /\ fn_args[1][1].text # fn_args[1][2].text
    /\ fn_args[1][1].confidence < fn_args[1][2].confidence
    /\ fn_out[1].text = fn_args[1][2].text

\* None for the empty list
C23_WitnessNone ==
    /\ Selected
    /\ fn_args[1] = <<>>
    /\ ~fn_out[1].some

\* candidates of confidence 0 only give Some, with confidence 0
C23_WitnessZeroConfidence ==
    /\ Selected
    /\ Len(fn_args[1]) = 2
    /\ fn_out[1].some
    /\ fn_out[1].confidence = 0

\* ------------------------------------------------------------------ C24

\* the effects of a call cancel_ocr_operation(fid)
CancelEffects(fid) ==
    /\ fid \notin DOMAIN OCR_PROCESS_IDS'
    /\ fid \notin DOMAIN OCR_TRANSCODE_PATHS'
    /\ \A other \in FileIds \ {fid} :
          /\ other \in DOMAIN OCR_PROCESS_IDS' <=> other \in DOMAIN OCR_PROCESS_IDS
          /\ other \in DOMAIN OCR_PROCESS_IDS =>
                OCR_PROCESS_IDS'[other] = OCR_PROCESS_IDS[other]
          /\ other \in DOMAIN OCR_TRANSCODE_PATHS' <=> other \in DOMAIN OCR_TRANSCODE_PATHS
          /\ other \in DOMAIN OCR_TRANSCODE_PATHS =>
                OCR_TRANSCODE_PATHS'[other] = OCR_TRANSCODE_PATHS[other]
    /\ transcode_files' =
          IF fid \in DOMAIN OCR_TRANSCODE_PATHS
          THEN transcode_files \ {OCR_TRANSCODE_PATHS[fid]}
          ELSE transcode_files
    /\ terminated' =
          IF fid \in DOMAIN OCR_PROCESS_IDS /\ OCR_PROCESS_IDS[fid] # 0
          THEN terminated \cup {OCR_PROCESS_IDS[fid]}
          ELSE terminated
    /\ cancel_result' = "Ok"
    /\ (fid \notin DOMAIN OCR_PROCESS_IDS /\ fid \notin DOMAIN OCR_TRANSCODE_PATHS)
          => UNCHANGED <<registryVars, argVars, callPc, total_frames, chunks,
                         progress_counter, emitted, poolVars, result, transcode, extract>>

\* C24: cancel_ocr_operation(file_id) removes file_id from both registries,
\* deletes the recorded partial transcode file if there is one and returns
\* Ok; for an id in neither registry it changes nothing and returns Ok; for
\* an entry with pid 0 it signals no process.
C24_CancelRemovesBoth ==
    [][\A fid \in FileIds : CancelOcrOperation(fid) => CancelEffects(fid)]_vars

\* a transcode was cancelled while ffmpeg ran: its id is in neither registry,
\* its partial file is gone, ffmpeg was signalled, and Ok was returned
C24_Witness ==
    /\ cancel_result = "Ok"
    /\ transcode.pc = "running"
    /\ transcode.file_id \notin DOMAIN OCR_PROCESS_IDS
    /\ transcode.file_id \notin DOMAIN OCR_TRANSCODE_PATHS
    /\ PreviewPath(transcode.file_id) \notin transcode_files
    /\ transcode.pid \in terminated

\* a recognition job was cancelled: its entry is gone and no process was signalled
C24_WitnessRecognition ==
    /\ cancel_result = "Ok"
    /\ entry = "perform_ocr"
    /\ cancel_removed
    /\ file_id \notin DOMAIN OCR_PROCESS_IDS
    /\ terminated = {}

\* cancel_ocr_operation returned Ok with nothing ever registered
C24_WitnessNothingRegistered ==
    /\ cancel_result = "Ok"
    /\ callPc = "idle"
    /\ transcode.pc = "idle"
    /\ OCR_PROCESS_IDS = EmptyMap
    /\ OCR_TRANSCODE_PATHS = EmptyMap

\* cancel_ocr_operation was called for one job while the other stayed registered
C24_WitnessOtherJobKept ==
    /\ cancel_result = "Ok"
    /\ cancel_removed
    /\ transcode.pc = "running"
    /\ transcode.file_id # file_id
    /\ transcode.file_id \in DOMAIN OCR_PROCESS_IDS
    /\ transcode.file_id \in DOMAIN OCR_TRANSCODE_PATHS
    /\ transcode.pid \notin terminated

\* ------------------------------------------------------------------ C25

\* the call c stops as a cancelled copy: the error, no destination file, and
\* its source in neither set
StopsCancelled(c) ==
    /\ copies'[c].pc = "returned"
    /\ copies'[c].result = ErrCopyCancelled
    /\ DestPath(c) \notin dest_files'
    /\ copies[c].source \notin ACTIVE_COPY_SOURCES'
    /\ copies[c].source \notin CANCELLED_COPY_SOURCES'

\* a cancel request for a source no call is copying changes nothing
CancelOfIdleSourceNoOp ==
    \A source \in CopySources :
        (CancelCopyFile(source) /\ \A c \in Copying : copies[c].source # source)
            => UNCHANGED copyVars

\* C25 as stated: a copy whose cancellation was requested while it was active
\* stops at its next check with 'Copy cancelled', its partial destination
\* removed and its source in neither set; a cancel for a source not being
\* copied is a no-op; the cancelled set is always a subset of the active set.
C25_Original ==
    /\ [](CANCELLED_COPY_SOURCES \subseteq ACTIVE_COPY_SOURCES)
    /\ [][CancelOfIdleSourceNoOp]_vars
    /\ [][\A c \in cancel_requested :
             (CopyCheckBeforeRead(c) \/ CopyCheckAfterWrite(c)) => StopsCancelled(c)]_vars

\* C25, the part that holds: the cancelled set is a subset of the active set,
\* a cancel for a source not being copied is a no-op, and a check stops the
\* copy exactly when it finds the source in the cancelled set
C25_CheckFollowsCancelledSet ==
    /\ [](CANCELLED_COPY_SOURCES \subseteq ACTIVE_COPY_SOURCES)
    /\ [][CancelOfIdleSourceNoOp]_vars
    /\ [][\A c \in CopyIds :
             (CopyCheckBeforeRead(c) \/ CopyCheckAfterWrite(c)) =>
                 IF IsCopyCancelRequested(copies[c].source)
                 THEN StopsCancelled(c)
                 ELSE copies'[c].pc # "returned"]_vars

\* a copy marked cancelled while it ran passed its checks and completed: a
\* second copy of the same source cleared the mark
C25_Witness ==
    \E c \in survived :
        /\ copies[c].pc = "returned"
        /\ copies[c].result = "Ok"
        /\ DestPath(c) \in dest_files
        /\ \E other \in CopyIds \ {c} :
              /\ copies[other].source = copies[c].source
              /\ copies[other].result = ErrCopyCancelled

\* a copy is running although its source is in neither set
C25_WitnessUntracked ==
    \E c \in Copying : copies[c].source \notin ACTIVE_COPY_SOURCES

\* a single copy, cancelled after its first write, stopped at the next check
C25_WitnessStopped ==
    /\ copies[1].result = ErrCopyCancelled
    /\ copies[1].copied = 1
    /\ copies[1].total = MaxReads
    /\ copies[2].pc = "idle"
    /\ DestPath(1) \notin dest_files
    /\ ACTIVE_COPY_SOURCES = {}
    /\ CANCELLED_COPY_SOURCES = {}

\* ------------------------------------------------------------------ C26

\* the closure of chunk w returns Err("OCR cancelled") in this step
ReturnsCancelled(w) ==
    /\ wpc'[w] = "failed"
    /\ w \in cancel_seen'
    /\ saved_error' = IF saved_error = NoError THEN ErrCancelled ELSE saved_error
    /\ engines' = engines
    /\ pos'[w] = pos[w]
    /\ worker_results'[w] = worker_results[w]
    /\ progress_counter' = progress_counter

\* the steps of the closure of chunk w and the check each of them follows
ChecksOfWorker(w) ==
    /\ (wpc[w] = "entry" /\ wpc'[w] # "entry") =>
          IF IsCancelled THEN ReturnsCancelled(w) /\ w \notin engines' /\ pos[w] = 0
          ELSE wpc'[w] = "engine"
    /\ (wpc[w] # "engine" /\ wpc'[w] = "engine") => (wpc[w] = "entry" /\ ~IsCancelled)
    /\ (w \notin engines /\ w \in engines') => wpc[w] = "engine"
    /\ (wpc[w] = "loop" /\ wpc'[w] # "loop") =>
          IF pos[w] = Len(chunks[w]) THEN wpc'[w] = "done"
          ELSE IF IsCancelled THEN ReturnsCancelled(w)
          ELSE wpc'[w] = "frame"
    /\ (wpc[w] # "frame" /\ wpc'[w] = "frame") => (wpc[w] = "loop" /\ ~IsCancelled)
    /\ pos'[w] # pos[w] => (wpc[w] = "frame" /\ pos'[w] = pos[w] + 1 /\ wpc'[w] = "loop")
    /\ w \in cancel_seen =>
          /\ wpc'[w] = "failed"
          /\ pos'[w] = pos[w]
          /\ worker_results'[w] = worker_results[w]
          /\ (w \in engines' <=> w \in engines)

\* C26: a perform_ocr worker checks the registry once before it constructs
\* its engine and once before each frame; a worker that finds the entry absent
\* returns 'OCR cancelled' there, with no engine constructed at the entry
\* check, and loads, recognises and counts no further frame of its chunk.
C26_ChecksBeforeEngineAndFrames ==
    [][(entry = "perform_ocr" /\ callPc = "running" /\ callPc' = "running")
          => \A w \in Workers : ChecksOfWorker(w)]_vars

\* a worker found the entry absent at its entry check: no engine, no frame
C26_Witness ==
    /\ entry = "perform_ocr"
    /\ \E w \in cancel_seen :
          /\ w \notin engines
          /\ pos[w] = 0
          /\ Len(chunks[w]) > 0
          /\ wpc[w] = "failed"
    /\ \E v \in Workers : v \notin cancel_seen /\ pos[v] > 0

\* a worker found the entry absent before a later frame of its chunk
C26_WitnessMidChunk ==
    /\ entry = "perform_ocr"
    /\ \E w \in cancel_seen :
          /\ w \in engines
          /\ pos[w] > 0
          /\ pos[w] < Len(chunks[w])
          /\ Len(worker_results[w]) = pos[w]

\* ------------------------------------------------------------------ C27

\* the closure of chunk w holds the engine it constructed: `engine` is a local
\* of the closure, alive from its construction to the closure's return
HoldsEngine(w) == w \in engines /\ wpc[w] \in {"loop", "frame"}

\* the workers, in either entry point, in a state of the call
EnginesOfCall ==
    /\ engines \subseteq Workers
    /\ Cardinality(engines) + Cardinality(engine_failed) <= Len(chunks)
    /\ engines \cap engine_failed = {}
    /\ \A w \in Workers :
          /\ (wpc[w] = "frame" \/ pos[w] > 0) => w \in engines
          /\ wpc[w] \in {"loop", "frame"} => HoldsEngine(w)
          /\ wpc[w] \in {"idle", "entry", "engine", "skipped"} =>
                (w \notin engines /\ pos[w] = 0)
    /\ callPc \in {"idle", "registered"} => engines = {}
    /\ Returned => \A w \in Workers : ~HoldsEngine(w)

\* an engine is constructed by a closure that has none, before its first frame
ConstructedOncePerWorker ==
    \A w \in Workers :
        /\ (w \notin engines /\ w \in engines') =>
              (wpc[w] = "engine" /\ wpc'[w] = "loop" /\ pos[w] = 0
                  /\ engines' = engines \cup {w})
        /\ (wpc[w] # "engine" /\ wpc'[w] = "engine") =>
              (w \notin engines /\ w \notin engine_failed)
        /\ w \in engines => w \in engines'

C27_WitnessReturned ==
    /\ Returned
    /\ result.ok
    /\ Cardinality(engines) = MaxWorkers
    /\ \A w \in Workers : wpc[w] = "done"

\* perform_ocr_core: one engine per chunk as well
C27_WitnessCore ==
    /\ entry = "perform_ocr_core"
    /\ Cardinality(engines) = MaxWorkers
    /\ \A w \in Workers : pos[w] > 0

\* ------------------------------------------------------------------ C28

\* the frame list of the call: frame_data, indices 0 .. total - 1 in order
FrameList == [i \in 1..total_frames |-> i - 1]

\* the frames handed out, as a set per chunk
FramesOfChunk(c) == {chunks[c][j] : j \in 1..Len(chunks[c])}

\* chunk c is a run of consecutive frames of the list
ContiguousRun(c) ==
    \A j \in 1..(Len(chunks[c]) - 1) : chunks[c][j + 1] = chunks[c][j] + 1

\* C28: the chunks are contiguous runs of the frame list, pairwise disjoint,
\* and cover every frame exactly once in order; with chunk_size =
\* ceil(total / workers) every chunk but the last has chunk_size frames and the
\* last has 1..chunk_size, so no chunk is empty and there are at most
\* `workers` chunks.
C28_ChunksPartitionFrames ==
    (frames_listed /\ total_frames > 0) =>
        LET workers == WorkerCount(num_workers)
            chunk_size == DivCeil(total_frames, workers)
            last == Len(chunks)
        IN  /\ last >= 1
            /\ last <= workers
            /\ Flatten(chunks) = FrameList
            /\ \A c \in 1..last : ContiguousRun(c)
            /\ \A c, e \in 1..last : c # e => FramesOfChunk(c) \cap FramesOfChunk(e) = {}
            /\ \A c \in 1..(last - 1) :
                  /\ Len(chunks[c]) = chunk_size
                  /\ chunks[c + 1][1] = chunks[c][Len(chunks[c])] + 1
            /\ Len(chunks[last]) >= 1
            /\ Len(chunks[last]) <= chunk_size
            /\ PoolRan => Workers = 1..last

\* the last chunk is shorter than the others, and every worker went through
\* its chunk
C28_Witness ==
    /\ PoolRan
    /\ Len(chunks) = MaxWorkers
    /\ Len(chunks[Len(chunks)]) < Len(chunks[1])
    /\ \A w \in Workers : pos[w] = Len(chunks[w])

\* fewer chunks than workers
C28_WitnessFewerChunks ==
    /\ PoolRan
    /\ Len(chunks) < WorkerCount(num_workers)
    /\ Len(chunks[1]) = 1

\* num_workers = 0: one worker, one chunk with every frame
C28_WitnessNoWorkersAsked ==
    /\ PoolRan
    /\ num_workers = 0
    /\ Len(chunks) = 1
    /\ Len(chunks[1]) = MaxFrames

\* ------------------------------------------------------------------ C29

\* the fold is under way or over
Folding == gen_pc = "fold" \/ (gen_pc = "returned" /\ gen_result.ok)

\* the frame the loop takes in this step
FrameTaken == gen_frames'[Len(gen_frames')]

\* the closed segments stand in the order of the frames that ended them, each
\* after the one before, and the open segment after all of them
ClosedInFrameOrder ==
    LET all == segments \o current
    IN  /\ Len(current) <= 1
        /\ \A k \in 1..Len(all) :
              /\ all[k].start_time <= all[k].last_seen_time
              /\ all[k].candidates # <<>>
              /\ \E f \in 1..Len(gen_frames) :
                    gen_frames[f].frame_index = all[k].last_seen_frame_index
        /\ \A k \in 1..(Len(all) - 1) :
              /\ all[k].last_seen_frame_index < all[k + 1].last_seen_frame_index
              /\ all[k].last_seen_time <= all[k + 1].start_time

\* a step of the fold closes at most the open segment, as it is, behind the
\* segments closed before, which it leaves as they are; after a closing the
\* open segment, if any, is a new one made of the frame alone
ClosedSegmentsKept ==
    /\ Len(segments') >= Len(segments)
    /\ Len(segments') <= Len(segments) + 1
    /\ SubSeq(segments', 1, Len(segments)) = segments
    /\ Len(segments') = Len(segments) + 1 =>
          /\ current # <<>>
          /\ segments'[Len(segments')] = current[1]
          /\ current' # <<>> =>
                /\ Len(gen_frames') = Len(gen_frames) + 1
                /\ current'[1].start_time = FrameTaken.time_ms
                /\ current'[1].last_seen_frame_index = FrameTaken.frame_index
                /\ Len(current'[1].candidates) = 1
    /\ (Len(segments') = Len(segments) /\ current # <<>> /\ current' # <<>>) =>
          current'[1].start_time = current[1].start_time
    /\ (current = <<>> /\ current' # <<>>) =>
          /\ Len(segments') = Len(segments)
          /\ current'[1].last_seen_frame_index = FrameTaken.frame_index
          /\ Len(current'[1].candidates) = 1

\* C29: throughout the fold at most one segment is open; segments are closed
\* in frame order; a closed segment is never reopened or changed by a later
\* frame.
C29_ClosedSegmentsFinal ==
    /\ [](Folding => ClosedInFrameOrder)
    /\ [][gen_pc = "fold" => ClosedSegmentsKept]_vars

\* a segment is closed, and behind it a later frame has opened the next one
C29_Witness ==
    /\ gen_pc = "fold"
    /\ Len(segments) = 1
    /\ current # <<>>
    /\ Len(gen_frames) = MaxGenFrames
    /\ Len(segments[1].candidates) = 2

\* a valid frame arrived with a segment closed and none open
C29_WitnessOpenedAfterInvalid ==
    /\ gen_pc = "fold"
    /\ Len(segments) = 1
    /\ current # <<>>
    /\ Len(gen_frames) = 3
    /\ Len(current[1].candidates) = 1
    /\ gen_frames[2].frame_index # segments[1].last_seen_frame_index
    /\ gen_frames[2].frame_index # current[1].last_seen_frame_index

\* the segments of a call, one closed by each frame and the last by the end
C29_WitnessAllClosed ==
    /\ gen_pc = "returned"
    /\ Len(segments) = MaxGenFrames
    /\ current = <<>>

\* ------------------------------------------------------------------ C30

\* the normalized text of a frame
KeyOf(frame) == NormalizeTextForCompare(CollapseWhitespace(frame.text))

\* invalid as stated: confidence < min_confidence, or empty normalized text
InvalidAsStated(frame) ==
    frame.confidence < gen_min_confidence \/ KeyOf(frame) = <<>>

\* invalid as the loop has it: min_confidence is clamped into [0, 1] first
InvalidAsClamped(frame) ==
    frame.confidence < Clamp(gen_min_confidence, 0, 100) \/ KeyOf(frame) = <<>>

\* what a frame that is not valid does to the open segment
InvalidFrameEffect ==
    IF current = <<>>
    THEN segments' = segments /\ current' = <<>>
    ELSE IF FrameTaken.time_ms - current[1].last_seen_time <= gen_cleanup.max_gap_ms
    THEN segments' = segments /\ current' = current
    ELSE segments' = Append(segments, current[1]) /\ current' = <<>>

\* a step of the loop, as distinct from the closing after it
TakesFrame == gen_pc = "fold" /\ Len(gen_frames') = Len(gen_frames) + 1

\* the open segment was last seen at a valid frame, and every frame since is
\* invalid and within max_gap_ms of that frame
OpenSegmentLastSeen ==
    (gen_pc = "fold" /\ current # <<>>) =>
        \E f \in 1..Len(gen_frames) :
            /\ gen_frames[f].frame_index = current[1].last_seen_frame_index
            /\ gen_frames[f].time_ms = current[1].last_seen_time
            /\ ~InvalidAsClamped(gen_frames[f])
            /\ \A g \in (f + 1)..Len(gen_frames) :
                  /\ InvalidAsClamped(gen_frames[g])
                  /\ gen_frames[g].time_ms - current[1].last_seen_time
                        <= gen_cleanup.max_gap_ms

\* C30 as stated: a frame with confidence < min_confidence or an empty
\* normalized text leaves an open segment within max_gap_ms unchanged, closes
\* it beyond max_gap_ms and opens none, and changes nothing with no segment open.
C30_Original ==
    [][(TakesFrame /\ InvalidAsStated(FrameTaken)) => InvalidFrameEffect]_vars

\* C30 amended: the same of a frame whose confidence is below min_confidence
\* clamped into [0, 1] or whose normalized text is empty; such frames never
\* advance the last-seen time, so a run of them closes the segment at the first
\* one more than max_gap_ms after the last valid matching frame.
C30_InvalidFrameEffect ==
    /\ [][(TakesFrame /\ InvalidAsClamped(FrameTaken)) => InvalidFrameEffect]_vars
    /\ []OpenSegmentLastSeen

\* a run of invalid frames: the first within the gap left the segment open,
\* the second, no further from the first than the gap, closed it
C30_Witness ==
    /\ gen_pc = "fold"
    /\ Len(gen_frames) = 3
    /\ InvalidAsClamped(gen_frames[2])
    /\ InvalidAsClamped(gen_frames[3])
    /\ gen_frames[3].time_ms - gen_frames[2].time_ms <= gen_cleanup.max_gap_ms
    /\ Len(segments) = 1
    /\ segments[1].last_seen_frame_index = gen_frames[1].frame_index
    /\ current = <<>>

\* an invalid frame within the gap: the segment is open as it was
C30_WitnessWithinGap ==
    /\ gen_pc = "fold"
    /\ Len(gen_frames) = 2
    /\ gen_frames[2].confidence < gen_min_confidence
    /\ KeyOf(gen_frames[2]) # <<>>
    /\ segments = <<>>
    /\ current # <<>>
    /\ current[1].last_seen_frame_index = gen_frames[1].frame_index
    /\ Len(current[1].candidates) = 1

\* an invalid frame with no segment open
C30_WitnessNoneOpen ==
    /\ gen_pc = "fold"
    /\ Len(gen_frames) = 1
    /\ KeyOf(gen_frames[1]) = <<>>
    /\ segments = <<>>
    /\ current = <<>>

\* min_confidence above 1: a frame of confidence 1.0 is below it, and opens a
\* segment
C30_WitnessAboveRange ==
    /\ gen_pc = "fold"
    /\ Len(gen_frames) = 1
    /\ InvalidAsStated(gen_frames[1])
    /\ current # <<>>

\* ------------------------------------------------------------------ C31

\* the segment a frame opens: one candidate, at the frame's own time
OpenedBy(frame) ==
    [start_time |-> frame.time_ms,
     last_seen_time |-> frame.time_ms,
     last_seen_frame_index |-> frame.frame_index,
     baseline_key |-> KeyOf(frame),
     baseline_confidence |-> frame.confidence,
     candidates |-> <<[key |-> KeyOf(frame), text |-> CollapseWhitespace(frame.text),
                       confidence |-> frame.confidence]>>]

\* the text of the frame is judged similar to `key`: by texts_are_similar
\* when merge_similar is on, by equality when it is off
JudgedSimilar(key, frame) ==
    IF gen_cleanup.merge_similar
    THEN TextsAreSimilar(key, KeyOf(frame), SimilarityThreshold(gen_cleanup))
    ELSE key = KeyOf(frame)

\* the gap of the frame since the open segment was last seen
WithinGap(frame) ==
    frame.time_ms - current[1].last_seen_time <= gen_cleanup.max_gap_ms

ClosesAndOpens(frame) ==
    segments' = Append(segments, current[1]) /\ current' = <<OpenedBy(frame)>>

Extends(frame) ==
    /\ segments' = segments
    /\ current' # <<>>
    /\ current'[1].start_time = current[1].start_time
    /\ Len(current'[1].candidates) = Len(current[1].candidates) + 1

ValidFrameEffect ==
    LET frame == FrameTaken
    IN  IF current = <<>>
        THEN segments' = segments /\ current' = <<OpenedBy(frame)>>
        ELSE IF WithinGap(frame) /\ JudgedSimilar(current[1].baseline_key, frame)
        THEN Extends(frame)
        ELSE ClosesAndOpens(frame)

\* C31: a valid frame opens a one-candidate segment at its own time when none
\* is open; it closes the open segment and opens a new one when the gap since
\* last-seen exceeds max_gap_ms or the text is not similar to the baseline
\* key; it extends the open segment only within the gap and similar to the
\* baseline key.
C31_ValidFrameEffect ==
    [][(TakesFrame /\ ~InvalidAsClamped(FrameTaken)) => ValidFrameEffect]_vars

\* the third frame was added to the segment: similar to the baseline key, which
\* is the first frame's, and not to the latest frame's
C31_Witness ==
    /\ gen_pc = "fold"
    /\ Len(gen_frames) = 3
    /\ segments = <<>>
    /\ current # <<>>
    /\ Len(current[1].candidates) = 3
    /\ current[1].baseline_key = current[1].candidates[1].key
    /\ ~JudgedSimilar(current[1].candidates[2].key, gen_frames[3])
    /\ JudgedSimilar(current[1].candidates[1].key, gen_frames[3])

\* the third frame was added to the segment: similar to the baseline key, which
\* is the second frame's, and not to the first frame's
C31_WitnessNotFirst ==
    /\ gen_pc = "fold"
    /\ Len(gen_frames) = 3
    /\ segments = <<>>
    /\ current # <<>>
    /\ Len(current[1].candidates) = 3
    /\ ~JudgedSimilar(current[1].candidates[1].key, gen_frames[3])
    /\ JudgedSimilar(current[1].candidates[2].key, gen_frames[3])

\* a frame with the text of the open segment, beyond the gap, closed it
C31_WitnessSameTextBeyondGap ==
    /\ gen_pc = "fold"
    /\ Len(gen_frames) = 2
    /\ Len(segments) = 1
    /\ current # <<>>
    /\ current[1].baseline_key = segments[1].baseline_key
    /\ current[1].start_time - segments[1].last_seen_time > gen_cleanup.max_gap_ms

\* a frame within the gap whose text is not similar closed the segment
C31_WitnessDissimilar ==
    /\ gen_pc = "fold"
    /\ Len(gen_frames) = 2
    /\ Len(segments) = 1
    /\ current # <<>>
    /\ current[1].start_time - segments[1].last_seen_time <= gen_cleanup.max_gap_ms
    /\ gen_cleanup.merge_similar

\* merge_similar off: keys one substitution apart are not judged similar
C31_WitnessMergeOff ==
    /\ gen_pc = "fold"
    /\ ~gen_cleanup.merge_similar
    /\ Len(gen_frames) = 2
    /\ Len(segments) = 1
    /\ current # <<>>
    /\ current[1].start_time - segments[1].last_seen_time <= gen_cleanup.max_gap_ms
    /\ TextsAreSimilar(segments[1].baseline_key, current[1].baseline_key, 100)

\* ------------------------------------------------------------------ C32

\* the step adds the frame to the open segment
ExtendsOpenSegment ==
    /\ TakesFrame
    /\ current # <<>>
    /\ current' # <<>>
    /\ segments' = segments
    /\ Len(current'[1].candidates) = Len(current[1].candidates) + 1

\* what the extension does to the segment
ExtensionEffect ==
    LET frame == FrameTaken
        seg == current[1]
        ext == current'[1]
        exceeds == frame.confidence > seg.baseline_confidence
    IN  /\ ext.last_seen_time = frame.time_ms
        /\ ext.last_seen_frame_index = frame.frame_index
        /\ ext.start_time = seg.start_time
        /\ ext.candidates =
              Append(seg.candidates,
                     [key |-> KeyOf(frame), text |-> CollapseWhitespace(frame.text),
                      confidence |-> frame.confidence])
        /\ ext.baseline_key = IF exceeds THEN KeyOf(frame) ELSE seg.baseline_key
        /\ ext.baseline_confidence =
              IF exceeds THEN frame.confidence ELSE seg.baseline_confidence
        /\ ext.baseline_confidence >= seg.baseline_confidence

\* the baseline of a segment is its first candidate of the highest confidence
BaselineIsBestCandidate(seg) ==
    /\ seg.candidates # <<>>
    /\ \A k \in 1..Len(seg.candidates) :
          seg.candidates[k].confidence <= seg.baseline_confidence
    /\ \E k \in 1..Len(seg.candidates) :
          /\ seg.candidates[k].confidence = seg.baseline_confidence
          /\ seg.candidates[k].key = seg.baseline_key
          /\ \A e \in 1..(k - 1) :
                seg.candidates[e].confidence < seg.baseline_confidence

\* C32: extending a segment sets last-seen time and frame index to the
\* frame's, appends one candidate, keeps start_time, and replaces baseline key
\* and confidence only when the frame's confidence strictly exceeds the
\* baseline's; so the baseline confidence of every segment is the highest
\* among its candidates, its baseline key is a candidate's, and the baseline
\* confidence never decreases.
C32_BaselineIsMaximum ==
    /\ [][ExtendsOpenSegment => ExtensionEffect]_vars
    /\ [](\A k \in 1..Len(segments \o current) :
             BaselineIsBestCandidate((segments \o current)[k]))

\* a frame of the baseline's confidence and another key was added: the
\* baseline key stayed
C32_Witness ==
    /\ gen_pc = "fold"
    /\ current # <<>>
    /\ Len(current[1].candidates) = 2
    /\ current[1].candidates[2].confidence = current[1].candidates[1].confidence
    /\ current[1].candidates[2].key # current[1].candidates[1].key
    /\ current[1].baseline_key = current[1].candidates[1].key
    /\ current[1].last_seen_frame_index = gen_frames[Len(gen_frames)].frame_index

\* a frame of higher confidence and another key replaced the baseline
C32_WitnessRaised ==
    /\ gen_pc = "fold"
    /\ current # <<>>
    /\ Len(current[1].candidates) = 2
    /\ current[1].candidates[2].confidence > current[1].candidates[1].confidence
    /\ current[1].candidates[2].key # current[1].candidates[1].key
    /\ current[1].baseline_key = current[1].candidates[2].key
    /\ current[1].start_time = gen_frames[1].time_ms
    /\ current[1].last_seen_time > current[1].start_time

\* a frame of lower confidence was added after the baseline was raised
C32_WitnessLowerAfterRaise ==
    /\ gen_pc = "fold"
    /\ current # <<>>
    /\ Len(current[1].candidates) = 3
    /\ current[1].candidates[3].confidence < current[1].candidates[2].confidence
    /\ current[1].candidates[2].confidence > current[1].candidates[1].confidence
    /\ current[1].baseline_confidence = current[1].candidates[2].confidence

\* ------------------------------------ the inputs with invalid frames inside a gap

\* fps and cleanup options under which an invalid frame falls within
\* max_gap_ms of the open segment, and under which it does not
RangeConfigs ==
    { <<4, DefaultCleanup>>, <<4, LowThresholdCleanup>>, <<4, MergeOffCleanup>>,
      <<3000, HighThresholdCleanup>> }

NextGenRanges ==
    \/ \E cfg \in RangeConfigs, n \in 0..MaxGenFrames, min_conf \in MinConfidenceValues :
          GenerateSubtitlesCall(cfg[1], n, min_conf, cfg[2])
    \/ \E reading \in ConfidenceEdgeReadings, gap \in FrameGaps : GenerateFold(reading, gap)
    \/ GenerateFinish

SpecGenRanges == Init /\ [][NextGenRanges]_vars

\* ------------------------------------------------------------------ C33

RECURSIVE ValidAmong(_)
\* the valid frames of a frame list, in its order
ValidAmong(frames) ==
    IF frames = <<>> THEN <<>>
    ELSE IF InvalidAsClamped(Head(frames)) THEN ValidAmong(Tail(frames))
    ELSE <<Head(frames)>> \o ValidAmong(Tail(frames))

RECURSIVE CandidatesBefore(_, _)
\* the number of candidates of the segments before the k-th
CandidatesBefore(segs, k) ==
    IF k <= 1 THEN 0
    ELSE Len(segs[k - 1].candidates) + CandidatesBefore(segs, k - 1)

\* the first and the last frame the k-th segment absorbed, `valid` being the
\* valid frames of the input
FirstAbsorbed(segs, k, valid) == valid[CandidatesBefore(segs, k) + 1]

LastAbsorbed(segs, k, valid) == valid[CandidatesBefore(segs, k + 1)]

\* the segments are in frame order, their frame-index ranges apart
RangesInFrameOrder(segs) ==
    LET valid == ValidAmong(gen_frames)
    IN  /\ CandidatesBefore(segs, Len(segs) + 1) = Len(valid)
        /\ \A k \in 1..Len(segs) :
              /\ Len(segs[k].candidates) >= 1
              /\ segs[k].start_time = FirstAbsorbed(segs, k, valid).time_ms
              /\ segs[k].last_seen_frame_index = LastAbsorbed(segs, k, valid).frame_index
              /\ FirstAbsorbed(segs, k, valid).frame_index <= segs[k].last_seen_frame_index
        /\ \A k \in 1..(Len(segs) - 1) :
              segs[k].last_seen_frame_index < FirstAbsorbed(segs, k + 1, valid).frame_index

\* after the last frame no segment is open, and the list holds every valid
\* frame: the segment that was open has been closed and stands last
OpenSegmentClosedLast == current = <<>> /\ RangesInFrameOrder(segments)

\* C33: for input strictly ascending by frame_index the segment list is in
\* frame order, the frame-index ranges of its segments (first absorbed frame
\* to last_seen_frame_index) do not overlap, every segment has at least one
\* candidate, and a segment open at the end of the input is closed and last.
C33_SegmentsOrderedDisjoint ==
    /\ gen_pc = "fold" => RangesInFrameOrder(segments \o current)
    /\ GenReturnedOk => OpenSegmentClosedLast

\* two segments in frame order, the second closed by the end of the input
C33_Witness ==
    /\ GenReturnedOk
    /\ Len(gen_frames) = MaxGenFrames
    /\ Len(segments) = 2
    /\ segments[2].last_seen_frame_index = gen_frames[MaxGenFrames].frame_index
    /\ segments[1].last_seen_frame_index < segments[2].last_seen_frame_index

\* a segment whose range holds an invalid frame
C33_WitnessInvalidInside ==
    /\ GenReturnedOk
    /\ Len(gen_frames) = 3
    /\ Len(segments) = 1
    /\ Len(segments[1].candidates) = 2
    /\ segments[1].last_seen_frame_index = gen_frames[3].frame_index
    /\ segments[1].start_time = gen_frames[1].time_ms

\* the input ended with no segment open
C33_WitnessNoneOpenAtEnd ==
    /\ GenReturnedOk
    /\ Len(gen_frames) = 2
    /\ Len(segments) = 1
    /\ segments[1].last_seen_frame_index = gen_frames[1].frame_index
    /\ gen_frames[2].time_ms - gen_frames[1].time_ms > gen_cleanup.max_gap_ms
    /\ InvalidAsClamped(gen_frames[2])

\* ------------------------------------- levenshtein_distance_bounded on its own

\* the most characters of a sequence given to levenshtein_distance_bounded
MaxLevLen == 4

\* the largest max_dist of a call
MaxLevDist == 3

\* a call levenshtein_distance_bounded(a, b, max_dist) about to be made
InitLev ==
    /\ InitCalls
    /\ fn_name = "levenshtein_distance_bounded"
    /\ fn_args \in KeysUpTo(MaxLevLen) \X KeysUpTo(MaxLevLen) \X (0..MaxLevDist)
    /\ fn_out = <<>>

\* the call returns; a second call is made with the two sequences exchanged
LevenshteinReturns ==
    /\ fn_name = "levenshtein_distance_bounded"
    /\ Len(fn_out) < 2
    /\ fn_out' = Append(fn_out,
                        IF fn_out = <<>>
                        THEN LevenshteinDistanceBounded(fn_args[1], fn_args[2], fn_args[3])
                        ELSE LevenshteinDistanceBounded(fn_args[2], fn_args[1], fn_args[3]))
    /\ UNCHANGED <<fn_name, fn_args>>
    /\ UNCHANGED <<ocrVars, genVars, previewVars, copyVars, sleepVars>>

NextLev == LevenshteinReturns

SpecLev == InitLev /\ [][NextLev]_vars

\* ------------------------------------------------------------------ C34

\* levenshtein_distance_bounded was called
LevCalled == fn_name = "levenshtein_distance_bounded" /\ fn_out # <<>>

\* Some(d) within the bound, None above it
BoundedAnswer(d, max_dist) == IF d <= max_dist THEN d ELSE NoDistance

\* C34: levenshtein_distance_bounded(a, b, max_dist) returns Some(d), d the
\* Levenshtein distance of a and b, whenever d <= max_dist and None whenever
\* d > max_dist, in either order of the two arguments.
C34_BoundedDistanceExact ==
    LevCalled =>
        \A k \in 1..Len(fn_out) :
            fn_out[k] = BoundedAnswer(EditDistance(fn_args[1], fn_args[2]), fn_args[3])

\* both orders returned the distance, which is the bound and the difference
\* of the lengths, the longer sequence given first
C34_Witness ==
    /\ LevCalled
    /\ Len(fn_out) = 2
    /\ Len(fn_args[1]) - Len(fn_args[2]) = fn_args[3]
    /\ fn_args[3] = 2
    /\ fn_out[1] = 2
    /\ fn_out[2] = 2

\* a row above the bound ends the call: equal lengths, no character shared
C34_WitnessRowExit ==
    /\ LevCalled
    /\ Len(fn_args[1]) = MaxLevLen
    /\ Len(fn_args[2]) = MaxLevLen
    /\ fn_args[3] = 1
    /\ EditDistance(fn_args[1], fn_args[2]) = MaxLevLen
    /\ fn_out[1] = NoDistance

\* equal lengths and first characters, the distance above the bound
C34_WitnessLastCellAbove ==
    /\ LevCalled
    /\ fn_args[3] = 1
    /\ EditDistance(fn_args[1], fn_args[2]) = 2
    /\ Len(fn_args[1]) = Len(fn_args[2])
    /\ fn_args[1][1] = fn_args[2][1]
    /\ fn_out[1] = NoDistance

\* the distance is below the bound
C34_WitnessBelowBound ==
    /\ LevCalled
    /\ Len(fn_out) = 2
    /\ fn_args[3] = MaxLevDist
    /\ fn_out[1] = 1
    /\ fn_out[2] = 1

\* ------------------------------------------------------------------ C35

\* perform_ocr has returned
PerformOcrReturned == entry = "perform_ocr" /\ callPc = "returned"

\* the job's file_id is in the OCR cancellation registry
JobRegistered == file_id \in DOMAIN OCR_PROCESS_IDS

\* the errors perform_ocr returns before it registers the job
ErrorsBeforeRegistration == {ErrDirectory, ErrNotDirectory, ErrFps}

\* C35 as stated: whenever perform_ocr has returned, for whatever reason, the
\* job's file_id is no longer present in the OCR cancellation registry.
C35_Original == PerformOcrReturned => ~JobRegistered

\* C35, what the code does at the return: the entry is gone after Ok and after an error
\* returned before the registration; after any other error it is still there
\* unless cancel_ocr_operation removed it during the call.
C35_EntryLeftOnError ==
    [][(callPc # "returned" /\ PerformOcrReturned') =>
          (JobRegistered' <=>
              /\ ~result'.ok
              /\ result'.err \notin ErrorsBeforeRegistration
              /\ ~cancel_removed)]_vars

\* the call failed on the engine of its only worker and left the entry
C35_Witness ==
    /\ PerformOcrReturned
    /\ result.err \in EngineErrors
    /\ total_frames = 1
    /\ Len(chunks) = 1
    /\ JobRegistered
    /\ OCR_PROCESS_IDS[file_id] = 0

\* the models directory was not found: the entry is left
C35_WitnessModelsDir ==
    /\ PerformOcrReturned
    /\ result.err = ErrModelsDir
    /\ JobRegistered

\* the frames directory was not readable: the entry is left
C35_WitnessReadDir ==
    /\ PerformOcrReturned
    /\ result.err = ErrReadDir
    /\ JobRegistered

\* the returns after which the entry is gone: success, zero frames, cancellation
C35_WitnessCleaned ==
    /\ PerformOcrReturned
    /\ result.ok
    /\ total_frames = MaxFrames
    /\ ~JobRegistered

C35_WitnessZeroFrames ==
    /\ PerformOcrReturned
    /\ result.ok
    /\ frames_listed
    /\ total_frames = 0
    /\ ~JobRegistered

C35_WitnessCancelled ==
    /\ PerformOcrReturned
    /\ result.err = ErrCancelled
    /\ ~JobRegistered

\* ------------------------------------------------------- extract_ocr_frames

\* pids of the ffmpeg processes extract_ocr_frames spawns
ExtractPids == {8}

\* extract_ocr_frames up to the registration of the ffmpeg pid; `ready` is
\* false when the media path, the temp directory or the ffmpeg binary is
\* rejected or the spawn fails
ExtractOcrFramesCall(fid, pid, ready) ==
    /\ extract.pc = "idle"
    /\ IF ready
       THEN /\ OCR_PROCESS_IDS' = MapInsert(OCR_PROCESS_IDS, fid, pid)
            /\ extract' = [pc |-> "running", file_id |-> fid, pid |-> pid]
       ELSE /\ extract' = [extract EXCEPT !.pc = "returned", !.file_id = fid]
            /\ UNCHANGED OCR_PROCESS_IDS
    /\ UNCHANGED <<OCR_TRANSCODE_PATHS, transcode_files, terminated, callVars,
                   cancel_result, transcode>>
    /\ UNCHANGED <<genVars, pureVars, copyVars, sleepVars>>

\* the wait for ffmpeg ends, by its exit, an error or the timeout: the pid is
\* cleared on each of the three paths
ExtractOcrFramesEnds ==
    /\ extract.pc = "running"
    /\ OCR_PROCESS_IDS' = MapRemove(OCR_PROCESS_IDS, extract.file_id)
    /\ extract' = [extract EXCEPT !.pc = "returned"]
    /\ UNCHANGED <<OCR_TRANSCODE_PATHS, transcode_files, terminated, callVars,
                   cancel_result, transcode>>
    /\ UNCHANGED <<genVars, pureVars, copyVars, sleepVars>>

\* ------------------------- recognition, extraction, transcode and cancel together

\* the most frames of the recognition job that shares the registry
MaxSharedFrames == 2

NextShared ==
    \/ \E fid \in JobIds, nw \in 1..MaxWorkers : PerformOcrCall(fid, 1, nw, "directory")
    \/ \E n \in 1..MaxSharedFrames : PerformOcrSetup(TRUE, TRUE, n, TRUE)
    \/ \E w \in Workers : WorkerBegin(w)
    \/ \E w \in Workers : WorkerSkip(w)
    \/ \E w \in Workers : WorkerEntryCheck(w)
    \/ \E w \in Workers : WorkerCreateEngine(w, "ok")
    \/ \E w \in Workers : WorkerNextFrame(w)
    \/ \E w \in Workers : WorkerFrame(w, "ok")
    \/ PerformOcrJoin
    \/ \E fid \in FileIds : CancelOcrOperation(fid)
    \/ \E fid \in FileIds : TranscodeForPreviewCall(fid, TRUE)
    \/ \E pid \in FfmpegPids : TranscodeSpawn(pid, TRUE, FALSE)
    \/ \E success \in BOOLEAN : TranscodeAttemptEnds(success, FALSE)
    \/ \E fid \in FileIds, pid \in ExtractPids, ready \in BOOLEAN :
          ExtractOcrFramesCall(fid, pid, ready)
    \/ ExtractOcrFramesEnds

SpecShared == Init /\ [][NextShared]_vars

\* ------------------------------------------------------------------ C36

\* the closure of chunk w performs one of its two checks in this step
PerformsCheck(w) ==
    /\ entry = "perform_ocr"
    /\ callPc = "running"
    /\ \/ wpc[w] = "entry" /\ wpc'[w] # "entry"
       \/ wpc[w] = "loop" /\ pos[w] < Len(chunks[w]) /\ wpc'[w] # "loop"

\* C36 as stated: a running perform_ocr job is observed as cancelled if and
\* only if cancel_ocr_operation was called for its file_id during the run: no
\* other operation on the registry makes the job fail with 'OCR cancelled'
\* without a cancel request, or makes a requested cancellation go unobserved
\* by a worker that still has a check to perform.
C36_Original ==
    /\ []((entry = "perform_ocr" /\ cancel_seen # {}) => cancel_called)
    /\ [][\A w \in Workers : (PerformsCheck(w) /\ cancel_called) => w \in cancel_seen']_vars

\* a job returned 'OCR cancelled' and no cancel_ocr_operation was ever called:
\* the extraction on its file_id ended during the run
C36_Witness ==
    /\ PerformOcrReturned
    /\ result.err = ErrCancelled
    /\ cancel_result = "none"
    /\ ~cancel_called
    /\ extract.pc = "returned"
    /\ extract.file_id = file_id
    /\ transcode.pc = "idle"

\* the same by a preview transcode on its file_id that ended during the run
C36_WitnessTranscode ==
    /\ PerformOcrReturned
    /\ result.err = ErrCancelled
    /\ cancel_result = "none"
    /\ transcode.pc = "returned"
    /\ transcode.file_id = file_id
    /\ extract.pc = "idle"

\* a job cancelled before its workers started returned Ok with every frame
\* recognised: the transcode registered its pid under the file_id afterwards
C36_WitnessUnobserved ==
    /\ PerformOcrReturned
    /\ result.ok
    /\ Len(result.results) = MaxSharedFrames
    /\ cancel_removed
    /\ cancel_seen = {}
    /\ \A w \in Workers : after_cancel[w] = Len(chunks[w])
    /\ extract.pc = "idle"

\* an operation on another file_id leaves the job alone
C36_WitnessOtherFileId ==
    /\ PerformOcrReturned
    /\ result.ok
    /\ ~cancel_called
    /\ extract.pc = "returned"
    /\ extract.file_id # file_id
    /\ extract.pid # 0
    /\ transcode.pc = "returned"
    /\ transcode.file_id # file_id

\* ------------------------------------------- select_segment_text called twice

\* a second call on the same candidates returns: its HashMap is a new one,
\* iterated in an order of its own
SelectReturnsAgain ==
    /\ fn_name = "select_segment_text"
    /\ Len(fn_out) = 1
    /\ \E picked \in SelectSegmentText(fn_args[1]) : fn_out' = Append(fn_out, picked)
    /\ UNCHANGED <<fn_name, fn_args>>
    /\ UNCHANGED <<ocrVars, genVars, previewVars, copyVars, sleepVars>>

NextSelectTwice == SelectReturns \/ SelectReturnsAgain

SpecSelectTwice == InitSelect /\ [][NextSelectTwice]_vars

\* ------------------------------------------------------------------ C37

\* select_segment_text has returned twice on the same candidates
SelectedTwice == fn_name = "select_segment_text" /\ Len(fn_out) = 2

\* the keys that have the highest confidence of the list as their maximum
\* and, among those, the most occurrences
TopKeys ==
    LET list == fn_args[1]
        atTop == {i \in 1..Len(list) :
                     HighestConfidence(WithKey(list[i].key)) = HighestConfidence(1..Len(list))}
    IN  {list[i].key : i \in {i \in atTop :
            \A j \in atTop : Cardinality(WithKey(list[j].key))
                                <= Cardinality(WithKey(list[i].key))}}

\* C37 as stated: two calls of select_segment_text on the same candidates
\* return the same text and confidence, whatever the iteration order of the
\* key map, including when two keys tie on maximum confidence and count.
C37_Original == SelectedTwice => fn_out[1] = fn_out[2]

\* C37, what the code does: the two calls agree on Some or None and on the
\* confidence, and on the text unless two keys tie on maximum confidence and
\* occurrence count.
C37_SameUnlessTie ==
    SelectedTwice =>
        /\ fn_out[1].some = fn_out[2].some
        /\ fn_out[1].confidence = fn_out[2].confidence
        /\ fn_out[1].text # fn_out[2].text => Cardinality(TopKeys) > 1

\* two candidates of different keys and equal confidence: the calls returned
\* different texts
C37_Witness ==
    /\ SelectedTwice
    /\ Len(fn_args[1]) = 2
    /\ fn_args[1][1].key # fn_args[1][2].key
    /\ fn_args[1][1].confidence = fn_args[1][2].confidence
    /\ fn_out[1].text = fn_args[1][1].text
    /\ fn_out[2].text = fn_args[1][2].text
    /\ fn_out[1].text # fn_out[2].text

\* no tie: the second call returned what the first did, the best key being
\* the second of the list
C37_WitnessNoTie ==
    /\ SelectedTwice
    /\ Len(fn_args[1]) = MaxCandidates
    /\ Cardinality(TopKeys) = 1
    /\ Cardinality(CandidateKeys(fn_args[1])) = 2
    /\ fn_args[1][1].key \notin TopKeys
    /\ fn_out[1] = fn_out[2]

\* ------------------------------------------------------------------ C38

RECURSIVE AllCandidates(_)
\* the candidates of the segments, read in segment order
AllCandidates(segs) ==
    IF segs = <<>> THEN <<>>
    ELSE Head(segs).candidates \o AllCandidates(Tail(segs))

\* the candidate a frame becomes
CandidateOf(frame) ==
    SegmentCandidate(KeyOf(frame), CollapseWhitespace(frame.text), frame.confidence)

RECURSIVE CandidatesOfValid(_, _)
\* a candidate for each frame of confidence >= min_conf and non-empty key, in
\* the order of the frames
CandidatesOfValid(frames, min_conf) ==
    IF frames = <<>> THEN <<>>
    ELSE IF Head(frames).confidence >= min_conf /\ KeyOf(Head(frames)) # <<>>
    THEN <<CandidateOf(Head(frames))>> \o CandidatesOfValid(Tail(frames), min_conf)
    ELSE CandidatesOfValid(Tail(frames), min_conf)

\* before the filter and the merge there is a cue for each segment
CueForEachSegment == GenReturnedOk => Len(cues) = Len(segments)

\* C38: every valid frame becomes exactly one candidate of exactly one
\* segment and no invalid frame becomes a candidate: the candidates of all
\* segments, in segment order, are the valid input frames in input order, and
\* the cues before filtering and merging number the segments.  A frame is
\* valid as the loop's is_valid has it: confidence >= min_confidence clamped
\* into [0, 1], and a non-empty normalized text.
C38_CandidatesAreValidFrames ==
    /\ Folding =>
          AllCandidates(segments \o current) =
             CandidatesOfValid(gen_frames, Clamp(gen_min_confidence, 0, 100))
    /\ CueForEachSegment

\* three frames, the second invalid: two candidates in two segments, two cues
C38_Witness ==
    /\ GenReturnedOk
    /\ Len(gen_frames) = 3
    /\ InvalidAsClamped(gen_frames[2])
    /\ Len(segments) = 2
    /\ Len(AllCandidates(segments)) = 2
    /\ Len(cues) = 2
    /\ Len(subtitles) < Len(cues)

\* two frames in one segment: two candidates, one cue
C38_WitnessOneSegment ==
    /\ GenReturnedOk
    /\ Len(gen_frames) = 2
    /\ Len(segments) = 1
    /\ Len(segments[1].candidates) = 2
    /\ Len(cues) = 1

\* min_confidence above 1: a frame of confidence 1 is a candidate
C38_WitnessClamped ==
    /\ GenReturnedOk
    /\ gen_min_confidence > 100
    /\ Len(gen_frames) = 2
    /\ Len(AllCandidates(segments)) = 1
    /\ AllCandidates(segments)[1].confidence = 100

\* ------------------------------------------------------------------ C39

\* the cues of `list` start in strictly ascending order and none ends after
\* the next one starts
CuesApart(list) ==
    \A k \in 1..(Len(list) - 1) :
        /\ list[k].start_time < list[k + 1].start_time
        /\ list[k].end_time <= list[k + 1].start_time

\* C39 as stated: for input strictly ascending by frame_index with time_ms =
\* round(frame_index * 1000 / fps), the cues derived from the segments are in
\* strictly ascending start_time order and do not overlap in time, and the
\* URL filter and the adjacency merge preserve this.
C39_Original ==
    GenReturnedOk => (CuesApart(cues) /\ CuesApart(filtered) /\ CuesApart(subtitles))

\* C39, what the code does when a frame lasts a millisecond or more: the cues
\* are apart before the filter, after it and after the merge.
C39_ApartAtMillisecondFrames ==
    (GenReturnedOk /\ gen_fps <= 1000) =>
        (CuesApart(cues) /\ CuesApart(filtered) /\ CuesApart(subtitles))

\* 3000 frames a second: two cues returned that start at the same millisecond,
\* the first ending after the second starts
C39_Witness ==
    /\ GenReturnedOk
    /\ gen_fps = 3000
    /\ Len(gen_frames) = 2
    /\ gen_frames[1].frame_index < gen_frames[2].frame_index
    /\ Len(subtitles) = 2
    /\ subtitles[1].start_time = subtitles[2].start_time
    /\ subtitles[1].end_time > subtitles[2].start_time

\* 4 frames a second: the filter removed the second of three cues and the
\* merge passed over the two left, which are apart
C39_WitnessFilterAndMerge ==
    /\ GenReturnedOk
    /\ gen_fps = 4
    /\ Len(cues) = 3
    /\ Len(filtered) = 2
    /\ Len(merge_log) = 2
    /\ Len(subtitles) = 2
    /\ subtitles[1].end_time <= subtitles[2].start_time

\* 4 frames a second: the merge absorbed a cue, the cues left are apart
C39_WitnessMerged ==
    /\ GenReturnedOk
    /\ gen_fps = 4
    /\ Len(filtered) = 3
    /\ Len(subtitles) = 2
    /\ subtitles[1].end_time <= subtitles[2].start_time

\* ------------------------------------------------- the sleep-inhibit service

\* The service thread takes the requests from its channel one at a time and
\* runs ManagerState::handle_request on each: an action is one request
\* handled.  SleepInhibitGuard::try_acquire sends Acquire and the guard's drop
\* sends ReleaseBestEffort with the token it holds; the commands that hold a
\* guard (perform_ocr, extract_ocr_frames) add these two requests to the
\* sequence.

\* the most tokens handed out; next_token is a u64 and saturating_add does
\* not saturate within it
MaxTokens == 3

ErrUnknownToken == "Unknown sleep inhibit token"

SleepReasons == {"OCR processing", "OCR frame extraction"}

\* the tokens a release names: handed out, or never handed out
SleepTokens == 0..(MaxTokens + 1)

\* what was sent on the reply channel of the request
SleepReply(request, token, reply, err) ==
    [request |-> request, token |-> token, reply |-> reply, err |-> err]

\* Request::Acquire; `activated` is whether
\* PlatformInhibitHandle::new_best_effort returned Some
AcquireRequest(reason, activated) ==
    /\ next_token <= MaxTokens
    /\ next_token' = next_token + 1
    /\ leases' = MapInsert(leases, next_token, reason)
    /\ handle' = IF DOMAIN leases = {}
                 THEN IF activated THEN <<reason>> ELSE <<>>
                 ELSE handle
    /\ sleep_reply' = SleepReply("Acquire", next_token, "Ok", NoError)
    /\ tokens_out' = Append(tokens_out, next_token)
    /\ UNCHANGED <<ocrVars, genVars, pureVars, previewVars, copyVars>>

\* Request::Release
ReleaseRequest(token) ==
    /\ IF token \notin DOMAIN leases
       THEN /\ sleep_reply' = SleepReply("Release", token, "Err", ErrUnknownToken)
            /\ UNCHANGED <<leases, handle>>
       ELSE /\ leases' = MapRemove(leases, token)
            /\ handle' = IF DOMAIN leases' = {} THEN <<>> ELSE handle
            /\ sleep_reply' = SleepReply("Release", token, "Ok", NoError)
    /\ UNCHANGED <<next_token, tokens_out>>
    /\ UNCHANGED <<ocrVars, genVars, pureVars, previewVars, copyVars>>

\* mutant: the handle is kept when the last lease goes
ReleaseBestEffortRequestKeepsHandle(token) ==
    /\ leases' = MapRemove(leases, token)
    /\ UNCHANGED handle
    /\ sleep_reply' = SleepReply("ReleaseBestEffort", token, "none", NoError)
    /\ UNCHANGED <<next_token, tokens_out>>
    /\ UNCHANGED <<ocrVars, genVars, pureVars, previewVars, copyVars>>

\* Request::ReleaseBestEffort: no reply channel
ReleaseBestEffortRequest(token) ==
    /\ leases' = MapRemove(leases, token)
    /\ handle' = IF DOMAIN leases' = {} THEN <<>> ELSE handle
    /\ sleep_reply' = SleepReply("ReleaseBestEffort", token, "none", NoError)
    /\ UNCHANGED <<next_token, tokens_out>>
    /\ UNCHANGED <<ocrVars, genVars, pureVars, previewVars, copyVars>>

NextSleep ==
    \/ \E reason \in SleepReasons, activated \in BOOLEAN : AcquireRequest(reason, activated)
    \/ \E token \in SleepTokens : ReleaseRequest(token)
    \/ \E token \in SleepTokens : ReleaseBestEffortRequest(token)

SpecSleep == Init /\ [][NextSleep]_vars

\* ------------------------------------------------------------------ C40

\* the tokens with a lease outstanding
Outstanding == DOMAIN leases

\* the tokens handed out are pairwise distinct and strictly increasing
TokensIncrease ==
    \A i, j \in 1..Len(tokens_out) : i < j => tokens_out[i] < tokens_out[j]

\* a lease is outstanding for tokens that were handed out only
LeasesWereHandedOut ==
    Outstanding \subseteq {tokens_out[i] : i \in 1..Len(tokens_out)}

\* the handle is dropped in this step
HandleDropped == handle # <<>> /\ handle' = <<>>

\* the last outstanding lease is released in this step
LastLeaseReleased == Outstanding # {} /\ Outstanding' = {}

\* the request handled in this step
Handles(request) == sleep_reply'.request = request

\* the handle is dropped when the last lease is released and at no other
\* step, and made when the first lease is taken and at no other step
HandleFollowsLeases ==
    /\ handle # <<>> => (HandleDropped <=> LastLeaseReleased)
    /\ handle' # handle =>
          \/ HandleDropped
          \/ handle = <<>> /\ Handles("Acquire") /\ Outstanding = {}

\* a release of a token that has no lease: the error is the reply to Release,
\* ReleaseBestEffort has no reply, and leases and handle stay as they are
UnknownTokenRelease ==
    /\ (Handles("Release") /\ sleep_reply'.token \notin Outstanding) =>
          /\ sleep_reply'.reply = "Err"
          /\ sleep_reply'.err = ErrUnknownToken
          /\ UNCHANGED <<leases, handle, next_token, tokens_out>>
    /\ (Handles("ReleaseBestEffort") /\ sleep_reply'.token \notin Outstanding) =>
          /\ sleep_reply'.reply = "none"
          /\ UNCHANGED <<leases, handle, next_token, tokens_out>>
    /\ (Handles("Release") /\ sleep_reply'.token \in Outstanding) =>
          /\ sleep_reply'.reply = "Ok"
          /\ Outstanding' = Outstanding \ {sleep_reply'.token}

\* C40: in the sleep-inhibit service, after any sequence of Acquire, Release
\* and ReleaseBestEffort requests, the tokens handed out are pairwise distinct
\* and strictly increasing, no platform inhibit handle is held while no lease
\* is outstanding, the handle is dropped exactly when the last outstanding
\* lease is released, and a release of an unknown or already released token
\* returns 'Unknown sleep inhibit token' and leaves leases and handle unchanged.
C40_SleepInhibitLeases ==
    /\ [](TokensIncrease /\ LeasesWereHandedOut /\ (handle # <<>> => Outstanding # {}))
    /\ [][HandleFollowsLeases /\ UnknownTokenRelease]_vars

\* a token released for the second time: the error, with another lease and
\* the handle still held
C40_Witness ==
    /\ sleep_reply = SleepReply("Release", 1, "Err", ErrUnknownToken)
    /\ tokens_out = <<1, 2>>
    /\ Outstanding = {2}
    /\ handle # <<>>

\* the last of MaxTokens leases was released by ReleaseBestEffort: no handle
C40_WitnessDropped ==
    /\ sleep_reply.request = "ReleaseBestEffort"
    /\ Len(tokens_out) = MaxTokens
    /\ sleep_reply.token = MaxTokens
    /\ Outstanding = {}
    /\ handle = <<>>

\* a token never handed out is released
C40_WitnessNeverHandedOut ==
    /\ sleep_reply = SleepReply("Release", MaxTokens + 1, "Err", ErrUnknownToken)
    /\ Cardinality(Outstanding) = MaxTokens
    /\ handle # <<>>

\* the platform gave no handle: leases outstanding and none held
C40_WitnessNotActivated ==
    /\ Cardinality(Outstanding) = 2
    /\ handle = <<>>

====
